---- MODULE Spec2Model ----
(***************************************************************************)
(* Advanced Audio Suite (src/AAS.py): the batch synthesis worker           *)
(* (SynthesisWorker), the preview worker (PreviewWorker), the window       *)
(* handlers that start them and receive their terminal signals, and the    *)
(* files they read and write: the input CSV, the snapshot                  *)
(* data/lastCsvData.csv, the audio files and settings.json of each voice   *)
(* output directory, config.json and data/sample_preview.wav.              *)
(*                                                                         *)
(* Strings are sequences of one-character strings, so that strip() and     *)
(* replace(":", "_") are computed and not assumed.  The Azure speech call  *)
(* is external: each call returns one of its three kinds of result and     *)
(* leaves the output file untouched or (re)written with some size.         *)
(*                                                                         *)
(* Spec is the batch with the user's changes by hand.  The other           *)
(* specifications run the same actions on other inputs: PathSpec on paths  *)
(* that try the path test under both flavours of Path, ChangeSpec on rows  *)
(* that give one path several texts, PreviewSpec with the preview beside   *)
(* the batch, FaultSpec with calls that raise, LiveSpec with the batch     *)
(* thread scheduled fairly, MsgSpec on the end of a run with up to         *)
(* MaxFailed failed rows, RerunSpec on the runs that follow a first run.   *)
(* StartupSpec is the construction of the window: the credentials and the  *)
(* voice catalog.  SsmlSpec is build_ssml on texts and speed multipliers.  *)
(***************************************************************************)
EXTENDS Integers, Sequences, FiniteSets, TLC

\* ------------------------------------------------------------------ bounds
MaxRows == 2        \* rows of an input CSV file
MaxStarts == 2      \* presses of the start button
MaxEnvOps == 1      \* times the user changes a file by hand (CSV or audio file)
MaxPreviews == 2    \* presses of the play button
MaxFailed == 6      \* rows of a run that exhaust their retries

\* ------------------------------------------------------- program constants
MaxRetries == 3             \* retry_count >= 3
MinAudioBytes == 1024       \* st_size < 1024
MaxExamples == 5            \* failed_outputs[:5], len(failed_outputs) > 5

\* --------------------------------------------------------------- alphabets
\* Cells of the input CSV as csv.DictReader hands them over (before strip()).
RawRows == { [path |-> <<"a">>, text |-> <<"H">>],
             [path |-> <<"a">>, text |-> <<"Y", " ">>],
             [path |-> <<" ", "b">>, text |-> <<"H">>],
             [path |-> <<".", ".", "/", "a">>, text |-> <<"H">>],
             [path |-> <<" ">>, text |-> <<"H">>] }

RECURSIVE SeqsUpTo(_, _)
SeqsUpTo(S, n) ==
    IF n = 0 THEN { <<>> }
    ELSE LET shorter == SeqsUpTo(S, n - 1)
         IN  shorter \cup { Append(s, x) : s \in shorter, x \in S }

CsvContents == SeqsUpTo(RawRows, MaxRows)

\* Cells whose paths try the path test: a plain name, a path from the root,
\* a path with a parent segment, and a path with a drive letter.
PathRawRows == { [path |-> <<"a">>, text |-> <<"H">>],
                 [path |-> <<"/", "a">>, text |-> <<"H">>],
                 [path |-> <<".", ".", "/", "a">>, text |-> <<"H">>],
                 [path |-> <<"c", ":", "/", "a">>, text |-> <<"H">>] }

PathCsvContents == SeqsUpTo(PathRawRows, MaxRows)

\* Cells that give one path three texts, and a path with a parent segment two.
ChangeRawRows == { [path |-> <<"a">>, text |-> <<"H">>],
                   [path |-> <<"a">>, text |-> <<"Y">>],
                   [path |-> <<"a">>, text |-> <<"Z">>],
                   [path |-> <<".", ".", "/", "a">>, text |-> <<"H">>],
                   [path |-> <<".", ".", "/", "a">>, text |-> <<"Y">>] }

ChangeCsvContents == SeqsUpTo(ChangeRawRows, MaxRows)

\* The flavours of pathlib.Path.
Platforms == { "posix", "windows" }

\* The flavour of pathlib.Path the program runs with.
VARIABLE platform

\* Voice output directories <output_dir>/<language>/<region>/<voice tail>.
Dirs == { "d1", "d2" }
NoVoice == "none"

\* Sizes the speech call may leave in the output file.
Sizes == { MinAudioBytes - 1, MinAudioBytes }

\* The text fields of the window when a button is pressed.
Field(n, v) == [numeric |-> n, value |-> v]
UiInputs == { [style |-> "Default", speed |-> Field(TRUE, 125),
               post |-> Field(TRUE, 25), pre |-> Field(TRUE, 0)],
              [style |-> "Default", speed |-> Field(FALSE, 0),
               post |-> Field(TRUE, 25), pre |-> Field(TRUE, 0)] }

\* ------------------------------------------------------------ pure helpers
\* str.strip(): leading and trailing whitespace removed.
RECURSIVE LStrip(_)
LStrip(s) == IF s # <<>> /\ Head(s) = " " THEN LStrip(Tail(s)) ELSE s

RECURSIVE RStrip(_)
RStrip(s) ==
    IF s # <<>> /\ s[Len(s)] = " " THEN RStrip(SubSeq(s, 1, Len(s) - 1)) ELSE s

Strip(s) == RStrip(LStrip(s))

\* row.path.replace(":", "_")
ReplaceColon(p) == [i \in DOMAIN p |-> IF p[i] = ":" THEN "_" ELSE p[i]]

\* Path(p).parts: the segments between "/" (a leading "/" is the root part).
RECURSIVE Parts(_)
Parts(p) ==
    IF p = <<>> THEN <<>>
    ELSE LET cut == { i \in DOMAIN p : p[i] = "/" }
         IN  IF cut = {} THEN << p >>
             ELSE LET k == CHOOSE i \in cut : \A j \in cut : i <= j
                      rest == Parts(SubSeq(p, k + 1, Len(p)))
                  IN  IF k = 1 THEN rest
                      ELSE << SubSeq(p, 1, k - 1) >> \o rest

\* Path(p).is_absolute(): a POSIX path is absolute when it starts at the
\* root, a Windows path when it has a drive and starts at the root of it.
IsAbsolute(p) ==
    IF platform = "posix" THEN p # <<>> /\ p[1] = "/"
    ELSE Len(p) >= 3 /\ p[2] = ":" /\ p[3] = "/"

\* safe_relative_path.is_absolute() or ".." in safe_relative_path.parts
IsUnsafe(p) ==
    LET safe == ReplaceColon(p)
    IN  IsAbsolute(safe) \/ \E i \in DOMAIN Parts(safe) : Parts(safe)[i] = <<".", ".">>

CsvRow(p, t) == [path |-> p, text_to_play |-> t]

\* _read_csv_rows: both cells stripped, rows with an empty path dropped.
RECURSIVE ReadCsvRows(_)
ReadCsvRows(cells) ==
    IF cells = <<>> THEN <<>>
    ELSE LET path_value == Strip(Head(cells).path)
             text_value == Strip(Head(cells).text)
         IN  IF path_value = <<>> THEN ReadCsvRows(Tail(cells))
             ELSE << CsvRow(path_value, text_value) >> \o ReadCsvRows(Tail(cells))

\* _write_rows: one record of cells per row, under the header path,text to play.
WriteRows(rows) ==
    [i \in DOMAIN rows |-> [path |-> rows[i].path, text |-> rows[i].text_to_play]]

\* The paths a row of some input CSV can have, and their files.
RowPaths == { Strip(r.path) : r \in RawRows } \ { <<>> }
RelFiles == { ReplaceColon(p) : p \in RowPaths }
PathRelFiles == { ReplaceColon(Strip(r.path)) : r \in PathRawRows }

\* base_output / f for every f a row can name: the file f of base_output, the
\* file f of the directory above it for "../f", and on Windows the file f of
\* the root of the drive for "/f".
AllFiles == RelFiles \cup PathRelFiles

NoFile == [exists |-> FALSE, text |-> <<>>, size |-> 0]
AudioFile(t, n) == [exists |-> TRUE, text |-> t, size |-> n]
ForeignText == <<"?">>

NoRows == [exists |-> FALSE, cells |-> <<>>]
RowsFile(c) == [exists |-> TRUE, cells |-> c]

NoSettings ==
    [exists |-> FALSE, style |-> "", multiplier |-> 0,
     trailingSilence |-> 0, leadingSilence |-> 0]

NoConfig ==
    [exists |-> FALSE, Voice |-> NoVoice, Style |-> "", Speed |-> 0,
     PostSilence |-> 0, PreSilence |-> 0]

NoWorker ==
    [dir |-> NoVoice, style |-> "", speed |-> 0, post_silence |-> 0, pre_silence |-> 0]

NoOutcome == [result |-> "none", writes |-> FALSE, size |-> 0]

NoDetails == [kind |-> "none", count |-> 0, preview |-> <<>>]

NoPrev ==
    [valid |-> FALSE, rows |-> <<>>, worker |-> NoWorker, terminal |-> "none",
     complete |-> FALSE, envOps |-> 0]

\* ------------------------------------------------------------------- state
VARIABLES
    csv,            \* the input CSV file named in the window
    snapshot,       \* data/lastCsvData.csv
    files,          \* files[d][f]: the file f of voice output directory d
    settings,       \* settings[d]: settings.json of voice output directory d
    config,         \* config.json
    btn_start,      \* the start button is enabled
    signal,         \* terminal signal queued for the window: none, done, failed
    pc,             \* where the worker thread is: idle when none is running
    worker,         \* the constructor arguments of self.worker
    current_rows, last_rows, changed_rows, new_rows, target_rows,
    idx,            \* position of the for loop in target_rows
    retry_count,
    failed_outputs,
    terminal,       \* the signal this run has emitted
    readOk,         \* this run has read its CSV
    calls,          \* speech calls made so far for the row being synthesised
    handled,        \* how each target row so far ended, and after how many calls
    snapshot0, files0, settings0,   \* the disk when _run_impl began
    prev,           \* the run before this one: its rows, its arguments, its signal,
                    \* whether every row's file existed at its end, and when it ended
    starts, envOps,
    notice,         \* the message box shown by the step just taken
    request,        \* the button whose handler the step just taken was: start, play
    details,        \* the text carried by the failed signal
    raised,         \* this run was ended by an exception other than its own
    preview_pc,     \* where the preview thread is: idle when none is running
    btn_play,       \* the play button is enabled
    preview_signal, \* terminal signal of the preview queued for the window
    sample,         \* data/sample_preview.wav
    preview_calls,  \* speech calls made by this preview run
    preview_out,    \* what the speech call of this preview run came back with
    previews,       \* presses of the play button that got past the busy test
    startup,        \* where main() and MainWindow.__init__ are: window when shown
    credentials,    \* config/credentials.json
    voices_file,    \* data/voices.json
    voices,         \* self.voices
    key, azure_region,              \* self.key, self.azure_region
    fetch,          \* what get_voices_async came back with: none when not called
    credentials0, voices_file0,     \* the two files when the program was started
    ssml_in,        \* the arguments of the call of build_ssml in hand
    ssml            \* what build_ssml returned for them

diskVars == << csv, snapshot, files, settings, config >>
guiVars == << btn_start, signal >>
localVars == << current_rows, last_rows, changed_rows, new_rows, target_rows,
                idx, retry_count, failed_outputs >>
ghostVars == << terminal, readOk, calls, handled, snapshot0, files0, settings0 >>
previewVars == << preview_pc, btn_play, preview_signal, sample, preview_calls,
                 preview_out, previews >>
batchVars == << diskVars, guiVars, pc, worker, localVars, ghostVars, prev, starts,
                envOps, details, raised >>
startVars == << startup, credentials, voices_file, voices, key, azure_region, fetch,
               credentials0, voices_file0 >>
ssmlVars == << ssml_in, ssml >>
hostVars == << platform, startVars, ssmlVars >>
vars == << batchVars, hostVars, notice, request, previewVars >>

\* What the batch worker and the user leave alone: the platform, what startup
\* left, the markup builder and the preview.
\* They show no message box.
Quiet == notice' = "none" /\ request' = "none" /\ UNCHANGED << hostVars, previewVars >>

\* credentials.json and voices.json, and what they hold.
NoCredentials == [exists |-> FALSE, Key |-> <<>>, Region |-> <<>>]
Credentials(k, r) == [exists |-> TRUE, Key |-> k, Region |-> r]
NoVoices == [exists |-> FALSE, list |-> <<>>]
VoicesFile(v) == [exists |-> TRUE, list |-> v]
CachedVoices == << "v1" >>

\* What startup leaves when the window is shown: a key and a region read
\* from credentials.json, and the catalog read from voices.json.
Constructed ==
    /\ startup = "window"
    /\ credentials = Credentials(<<"k">>, <<"r">>)
    /\ voices_file = VoicesFile(CachedVoices)
    /\ voices = CachedVoices
    /\ key = <<"k">> /\ azure_region = <<"r">>
    /\ fetch = "none"
    /\ credentials0 = credentials /\ voices_file0 = voices_file

\* The arguments and the result of build_ssml, and their absence.
NoSsmlIn == [text |-> <<>>, style |-> "", speed |-> 0, pre_silence |-> 0,
             post_silence |-> 0]
NoSsml == [built |-> FALSE, style |-> "", rate |-> <<>>, leading |-> 0,
           text |-> <<>>, trailing |-> 0]

\* build_ssml has not been called.
NothingBuilt == ssml_in = NoSsmlIn /\ ssml = NoSsml

\* The state after construction, but for the input CSV and the platform.
InitRest ==
    /\ Constructed
    /\ NothingBuilt
    /\ snapshot = NoRows
    /\ files = [d \in Dirs |-> [f \in AllFiles |-> NoFile]]
    /\ settings = [d \in Dirs |-> NoSettings]
    /\ config = NoConfig
    /\ btn_start = TRUE
    /\ signal = "none"
    /\ pc = "idle"
    /\ worker = NoWorker
    /\ current_rows = <<>> /\ last_rows = <<>>
    /\ changed_rows = <<>> /\ new_rows = <<>> /\ target_rows = <<>>
    /\ idx = 0 /\ retry_count = 0 /\ failed_outputs = <<>>
    /\ terminal = "none" /\ readOk = FALSE /\ calls = 0 /\ handled = <<>>
    /\ snapshot0 = NoRows
    /\ files0 = files
    /\ settings0 = settings
    /\ prev = NoPrev
    /\ starts = 0 /\ envOps = 0
    /\ notice = "none" /\ request = "none" /\ details = NoDetails /\ raised = FALSE
    /\ preview_pc = "idle" /\ btn_play = TRUE /\ preview_signal = "none"
    /\ sample = NoFile /\ preview_calls = 0 /\ preview_out = NoOutcome /\ previews = 0

\* The rows of RawRows have no rooted path: the two flavours of Path treat
\* them alike.
Init ==
    /\ csv \in { RowsFile(c) : c \in CsvContents } \cup { NoRows }
    /\ platform = "posix"
    /\ InitRest

\* ------------------------------------------------------- change detection
\* last_map = {row.path: row.text_to_play for row in last_rows}: the keys, and
\* the value of a key (a later row overwrites an earlier one).
LastMapKeys(rows) == { rows[i].path : i \in DOMAIN rows }

\* A map that keeps the first row of a path.
LastMapGetFirst(rows, p) ==
    LET at == { i \in DOMAIN rows : rows[i].path = p }
    IN  rows[CHOOSE i \in at : \A j \in at : i <= j].text_to_play

LastMapGet(rows, p) ==
    LET at == { i \in DOMAIN rows : rows[i].path = p }
    IN  rows[CHOOSE i \in at : \A j \in at : j <= i].text_to_play

\* new_rows of the loop over current_rows.
NewRows(cur, last) ==
    LET isNew(row) == row.path \notin LastMapKeys(last)
    IN  SelectSeq(cur, isNew)

\* changed_rows of the loop over current_rows.
ChangedRows(cur, last) ==
    LET isChanged(row) ==
            /\ row.path \in LastMapKeys(last)
            /\ LastMapGet(last, row.path) # row.text_to_play
    IN  SelectSeq(cur, isChanged)

\* A change detector that unlinks nothing.
UnlinkNothing(dirFiles, changed) == dirFiles

\* The old file of every changed row is unlinked.
UnlinkOld(dirFiles, changed) ==
    [f \in DOMAIN dirFiles |->
        IF \E i \in DOMAIN changed : ReplaceColon(changed[i].path) = f
        THEN NoFile ELSE dirFiles[f]]

\* Targets with the new rows before the changed ones.
TargetRowsNewFirst(changed, new, cur) ==
    IF changed # <<>> /\ new # <<>> THEN new \o changed
    ELSE IF changed # <<>> THEN changed
    ELSE IF new # <<>> THEN new
    ELSE cur

\* Targets without the fallback to all rows.
TargetRowsNoFallback(changed, new, cur) == changed \o new

\* target_rows
TargetRows(changed, new, cur) ==
    IF changed # <<>> /\ new # <<>> THEN changed \o new
    ELSE IF changed # <<>> THEN changed
    ELSE IF new # <<>> THEN new
    ELSE cur

\* ------------------------------------------------------------ the window
\* A test that finds no worker running.
NeverRunning == FALSE

\* self.worker and self.worker.isRunning()
IsRunning == pc # "idle"

Numeric(ui) == ui.speed.numeric /\ ui.post.numeric /\ ui.pre.numeric

\* _save_config: the payload written to config.json.
SaveConfig(ui, voice) ==
    [exists |-> TRUE, Voice |-> voice, Style |-> ui.style, Speed |-> ui.speed.value,
     PostSilence |-> ui.post.value, PreSilence |-> ui.pre.value]

NewWorker(ui, voice) ==
    [dir |-> voice, style |-> ui.style, speed |-> ui.speed.value,
     post_silence |-> ui.post.value, pre_silence |-> ui.pre.value]

\* _on_start_synthesis, pressed with the fields ui and the voice selection voice.
OnStartSynthesis(ui, voice) ==
    /\ btn_start
    /\ starts < MaxStarts
    /\ request' = "start"
    /\ \/ \* a worker is running: the busy notice
          /\ IsRunning
          /\ notice' = "Busy"
          /\ UNCHANGED << batchVars, hostVars, previewVars >>
       \/ \* float() or int() raises ValueError inside _save_config
          /\ ~IsRunning /\ ~Numeric(ui)
          /\ starts' = starts + 1
          /\ notice' = "Invalid Input"
          /\ UNCHANGED << diskVars, guiVars, pc, worker, localVars, ghostVars,
                          prev, envOps, details, raised, hostVars, previewVars >>
       \/ \* config.json is written, then the CSV or the voice is refused
          /\ ~IsRunning /\ Numeric(ui)
          /\ ~csv.exists \/ voice = NoVoice
          /\ config' = SaveConfig(ui, voice)
          /\ starts' = starts + 1
          /\ notice' = IF ~csv.exists THEN "CSV File" ELSE "Missing Voice"
          /\ UNCHANGED << csv, snapshot, files, settings, guiVars, pc, worker,
                          localVars, ghostVars, prev, envOps, details, raised,
                          hostVars, previewVars >>
       \/ \* the worker is created and started
          /\ ~IsRunning /\ Numeric(ui)
          /\ csv.exists /\ voice # NoVoice
          /\ config' = SaveConfig(ui, voice)
          /\ btn_start' = FALSE
          /\ worker' = NewWorker(ui, voice)
          /\ pc' = "start"
          /\ starts' = starts + 1
          /\ notice' = "none"
          /\ UNCHANGED << csv, snapshot, files, settings, signal, localVars,
                          ghostVars, prev, envOps, details, raised, hostVars,
                          previewVars >>

\* _on_synthesis_done
OnSynthesisDone ==
    /\ signal = "done"
    /\ btn_start' = TRUE
    /\ signal' = "none"
    /\ UNCHANGED << diskVars, pc, worker, localVars, ghostVars, prev, starts, envOps,
                    details, raised >>
    /\ Quiet

\* _on_synthesis_failed
OnSynthesisFailed ==
    /\ signal = "failed"
    /\ btn_start' = TRUE
    /\ signal' = "none"
    /\ notice' = "Synthesis Error"
    /\ request' = "none"
    /\ details' = NoDetails
    /\ UNCHANGED << diskVars, pc, worker, localVars, ghostVars, prev, starts, envOps,
                    raised, hostVars, previewVars >>

\* ------------------------------------------------------------ the preview
\* self.preview_worker and self.preview_worker.isRunning()
PreviewIsRunning == preview_pc # "idle"

\* _on_play_sample, pressed with the fields ui, the voice selection voice and
\* a sample text that is empty or not.
OnPlaySample(ui, voice, hasText) ==
    /\ btn_play
    /\ previews < MaxPreviews
    /\ request' = "play"
    /\ \/ \* a preview is running: the busy notice
          /\ PreviewIsRunning
          /\ notice' = "Busy"
          /\ UNCHANGED << batchVars, hostVars, previewVars >>
       \/ \* float() or int() raises ValueError inside _save_config
          /\ ~PreviewIsRunning /\ ~Numeric(ui)
          /\ previews' = previews + 1
          /\ notice' = "Invalid Input"
          /\ UNCHANGED << batchVars, hostVars, preview_pc, btn_play, preview_signal,
                          sample, preview_calls, preview_out >>
       \/ \* config.json is written, then the voice or the sample text is refused
          /\ ~PreviewIsRunning /\ Numeric(ui)
          /\ voice = NoVoice \/ ~hasText
          /\ config' = SaveConfig(ui, voice)
          /\ previews' = previews + 1
          /\ notice' = IF voice = NoVoice THEN "Missing Voice" ELSE "Sample Text"
          /\ UNCHANGED << csv, snapshot, files, settings, guiVars, pc, worker,
                          localVars, ghostVars, prev, starts, envOps, details, raised,
                          hostVars, preview_pc, btn_play, preview_signal, sample,
                          preview_calls, preview_out >>
       \/ \* the preview worker is created and started
          /\ ~PreviewIsRunning /\ Numeric(ui)
          /\ voice # NoVoice /\ hasText
          /\ config' = SaveConfig(ui, voice)
          /\ btn_play' = FALSE
          /\ preview_pc' = "start"
          /\ preview_calls' = 0
          /\ preview_out' = NoOutcome
          /\ previews' = previews + 1
          /\ notice' = "none"
          /\ UNCHANGED << csv, snapshot, files, settings, guiVars, pc, worker,
                          localVars, ghostVars, prev, starts, envOps, details, raised,
                          hostVars, preview_signal, sample >>

\* What the speech call of a preview can come back with: it may also raise.
PreviewOutcomes ==
    [result : { "None", "Canceled", "Completed", "Raised" }, writes : { FALSE }, size : { 0 }]
    \cup [result : { "None", "Canceled", "Completed", "Raised" }, writes : { TRUE },
          size : { 0, MinAudioBytes - 1 }]

\* A preview that asks for a file of 1024 bytes, as the batch does.
PreviewAcceptsBatchRule(o, file) ==
    /\ o.result = "Completed"
    /\ file.exists /\ file.size >= MinAudioBytes

\* _run_impl of the preview comes to its end without raising.
PreviewAccepts(o, file) ==
    /\ o.result = "Completed"
    /\ file.exists /\ file.size # 0

\* PreviewWorker.run: one speech call, then done or failed.
PreviewRun(o) ==
    /\ preview_pc = "start"
    /\ sample' = IF o.writes THEN AudioFile(<<"sample">>, o.size) ELSE sample
    /\ preview_calls' = preview_calls + 1
    /\ preview_out' = o
    /\ IF PreviewAccepts(o, sample')
       THEN preview_pc' = "done" /\ preview_signal' = "done"
       ELSE preview_pc' = "failed" /\ preview_signal' = "failed"
    /\ notice' = "none" /\ request' = "none"
    /\ UNCHANGED << batchVars, hostVars, btn_play, previews >>

\* _on_preview_done
OnPreviewDone ==
    /\ preview_signal = "done"
    /\ btn_play' = TRUE
    /\ preview_signal' = "none"
    /\ notice' = "none" /\ request' = "none"
    /\ UNCHANGED << batchVars, hostVars, preview_pc, sample, preview_calls,
                    preview_out, previews >>

\* _on_preview_failed
OnPreviewFailed ==
    /\ preview_signal = "failed"
    /\ btn_play' = TRUE
    /\ preview_signal' = "none"
    /\ notice' = "Speech Error" /\ request' = "none"
    /\ UNCHANGED << batchVars, hostVars, preview_pc, sample, preview_calls,
                    preview_out, previews >>

\* run() of the preview has returned: the thread is no longer running.
PreviewExit ==
    /\ preview_pc \in { "done", "failed" }
    /\ preview_pc' = "idle"
    /\ preview_calls' = 0
    /\ preview_out' = NoOutcome
    /\ notice' = "none" /\ request' = "none"
    /\ UNCHANGED << batchVars, hostVars, btn_play, preview_signal, sample, previews >>

\* ------------------------------------------------------------ the worker
\* An entry into _run_impl that writes the snapshot from the current rows
\* whether there is one or not.
RunResolveOverwrites ==
    /\ pc = "start"
    /\ snapshot0' = snapshot /\ files0' = files /\ settings0' = settings
    /\ calls' = 0 /\ handled' = <<>>
    /\ changed_rows' = <<>> /\ new_rows' = <<>> /\ target_rows' = <<>>
    /\ idx' = 0 /\ retry_count' = 0 /\ failed_outputs' = <<>>
    /\ IF ~csv.exists
       THEN /\ readOk' = FALSE
            /\ current_rows' = <<>> /\ last_rows' = <<>>
            /\ terminal' = "failed" /\ signal' = "failed"
            /\ details' = [NoDetails EXCEPT !.kind = "FileNotFoundError"]
            /\ pc' = "returned"
            /\ UNCHANGED snapshot
       ELSE /\ readOk' = TRUE
            /\ current_rows' = ReadCsvRows(csv.cells)
            /\ snapshot' = RowsFile(WriteRows(current_rows'))
            /\ last_rows' = ReadCsvRows(snapshot'.cells)
            /\ terminal' = "none"
            /\ pc' = "diff"
            /\ UNCHANGED << signal, details >>
    /\ UNCHANGED << csv, files, settings, config, btn_start, worker, prev,
                    starts, envOps, raised >>
    /\ Quiet

\* run() enters _run_impl: the CSV is resolved and read, the snapshot is
\* seeded when there is none, and read.  A missing CSV raises, and run()
\* emits failed.
RunResolve ==
    /\ pc = "start"
    /\ snapshot0' = snapshot /\ files0' = files /\ settings0' = settings
    /\ calls' = 0 /\ handled' = <<>>
    /\ changed_rows' = <<>> /\ new_rows' = <<>> /\ target_rows' = <<>>
    /\ idx' = 0 /\ retry_count' = 0 /\ failed_outputs' = <<>>
    /\ IF ~csv.exists
       THEN /\ readOk' = FALSE
            /\ current_rows' = <<>> /\ last_rows' = <<>>
            /\ terminal' = "failed" /\ signal' = "failed"
            /\ details' = [NoDetails EXCEPT !.kind = "FileNotFoundError"]
            /\ pc' = "returned"
            /\ UNCHANGED snapshot
       ELSE /\ readOk' = TRUE
            /\ current_rows' = ReadCsvRows(csv.cells)
            /\ snapshot' = IF snapshot.exists THEN snapshot
                           ELSE RowsFile(WriteRows(current_rows'))
            /\ last_rows' = ReadCsvRows(snapshot'.cells)
            /\ terminal' = "none"
            /\ pc' = "diff"
            /\ UNCHANGED << signal, details >>
    /\ UNCHANGED << csv, files, settings, config, btn_start, worker, prev,
                    starts, envOps, raised >>
    /\ Quiet

\* The loop over current_rows and the choice of target_rows.
RunDiff ==
    /\ pc = "diff"
    /\ changed_rows' = ChangedRows(current_rows, last_rows)
    /\ new_rows' = NewRows(current_rows, last_rows)
    /\ files' = [files EXCEPT ![worker.dir] = UnlinkOld(@, changed_rows')]
    /\ target_rows' = TargetRows(changed_rows', new_rows', current_rows)
    /\ failed_outputs' = <<>>
    /\ idx' = 1
    /\ pc' = "rows"
    /\ UNCHANGED << csv, snapshot, settings, config, guiVars, worker, current_rows,
                    last_rows, retry_count, ghostVars, prev, starts, envOps,
                    details, raised >>
    /\ Quiet

Handled(how, n) == [how |-> how, calls |-> n]

\* A skip that looks at the size of the existing file as well.
SkipExistingValid(file) == file.exists /\ file.size >= MinAudioBytes

\* if output_file.exists(): the row is skipped.
SkipExisting(file) == file.exists

\* One turn of the for loop up to the retry loop: an unsafe path and an
\* existing file are skipped.
RowStep ==
    /\ pc = "rows"
    /\ idx <= Len(target_rows)
    /\ LET row == target_rows[idx]
           output_file == ReplaceColon(row.path)
       IN  IF IsUnsafe(row.path)
           THEN /\ handled' = Append(handled, Handled("unsafe", 0))
                /\ idx' = idx + 1
                /\ UNCHANGED << pc, retry_count, calls >>
           ELSE IF SkipExisting(files[worker.dir][output_file])
           THEN /\ handled' = Append(handled, Handled("exists", 0))
                /\ idx' = idx + 1
                /\ UNCHANGED << pc, retry_count, calls >>
           ELSE /\ retry_count' = 0
                /\ calls' = 0
                /\ pc' = "tts"
                /\ UNCHANGED << handled, idx >>
    /\ UNCHANGED << diskVars, guiVars, worker, current_rows, last_rows, changed_rows,
                    new_rows, target_rows, failed_outputs, terminal, readOk,
                    snapshot0, files0, settings0, prev, starts, envOps,
                    details, raised >>
    /\ Quiet

\* What a speech call can come back with.
TtsOutcomes ==
    [result : { "None", "Canceled", "Completed" }, writes : { FALSE }, size : { 0 }]
    \cup [result : { "None", "Canceled", "Completed" }, writes : { TRUE }, size : Sizes]

\* retry_count after a call that came back with o, the file being file.
CountAttempt(o, file, count) ==
    IF o.result = "None" THEN count + 1
    ELSE IF o.result # "Completed" THEN count + 1
    ELSE IF ~file.exists \/ file.size < MinAudioBytes THEN count + 1
    ELSE count

\* A break that left the for loop too: no row after the failed one is reached.
AfterBreakAborts(i, n) == n + 1

\* A break after which the for loop takes the same row again.
AfterBreakStays(i, n) == i

\* break leaves the while loop only: the for loop goes on with the next row.
AfterBreak(i, n) == i + 1

\* A limit that is never reached.
LimitNeverReached(count) == FALSE

\* A limit tested with > : a 4th call is made.
LimitReachedLate(count) == count > MaxRetries

\* The retry limit is reached.
LimitReached(count) == count >= MaxRetries

\* One turn of the while loop: a speech call and what follows it.
Attempt(o) ==
    /\ pc = "tts"
    /\ LET row == target_rows[idx]
           output_file == ReplaceColon(row.path)
           before == files[worker.dir][output_file]
           written == IF o.writes THEN AudioFile(row.text_to_play, o.size)
                      ELSE before
           count == CountAttempt(o, written, retry_count)
       IN  /\ calls' = calls + 1
           /\ retry_count' = count
           /\ IF count = retry_count
              THEN \* "Done": the loop ends
                   /\ files' = [files EXCEPT ![worker.dir][output_file] = written]
                   /\ handled' = Append(handled, Handled("ok", calls + 1))
                   /\ idx' = idx + 1
                   /\ pc' = "rows"
                   /\ UNCHANGED failed_outputs
              ELSE IF LimitReached(count)
              THEN /\ files' = [files EXCEPT ![worker.dir][output_file] = NoFile]
                   /\ failed_outputs' = Append(failed_outputs, output_file)
                   /\ handled' = Append(handled, Handled("exhausted", calls + 1))
                   /\ idx' = AfterBreak(idx, Len(target_rows))
                   /\ pc' = "rows"
              ELSE /\ files' = [files EXCEPT ![worker.dir][output_file] = written]
                   /\ UNCHANGED << failed_outputs, handled, idx, pc >>
    /\ UNCHANGED << csv, snapshot, settings, config, guiVars, worker, current_rows,
                    last_rows, changed_rows, new_rows, target_rows, terminal, readOk,
                    snapshot0, files0, settings0, prev, starts, envOps,
                    details, raised >>
    /\ Quiet

\* ", ".join(items)
RECURSIVE Join(_)
Join(items) ==
    IF items = <<>> THEN <<>>
    ELSE IF Len(items) = 1 THEN items[1]
    ELSE items[1] \o <<",", " ">> \o Join(Tail(items))

\* items[:n]
Slice(items, n) == SubSeq(items, 1, IF Len(items) < n THEN Len(items) ELSE n)

\* A preview that names one path fewer.
ExamplesShort(failed) ==
    Join(Slice(failed, MaxExamples - 1))
        \o (IF Len(failed) > MaxExamples THEN <<",", " ", ".", ".", ".">> ELSE <<>>)

\* preview: at most 5 paths, and ", ..." behind them when there are more.
Examples(failed) ==
    Join(Slice(failed, MaxExamples))
        \o (IF Len(failed) > MaxExamples THEN <<",", " ", ".", ".", ".">> ELSE <<>>)

\* The RuntimeError raised for a non-empty failed_outputs.
FailureMessage(failed) ==
    [kind |-> "RuntimeError", count |-> Len(failed), preview |-> Examples(failed)]

\* A payload with the two silences exchanged.
SettingsPayloadSwapped(w) ==
    [exists |-> TRUE, style |-> w.style, multiplier |-> w.speed,
     trailingSilence |-> w.pre_silence, leadingSilence |-> w.post_silence]

\* settings_payload
SettingsPayload(w) ==
    [exists |-> TRUE, style |-> w.style, multiplier |-> w.speed,
     trailingSilence |-> w.post_silence, leadingSilence |-> w.pre_silence]

\* An end of _run_impl that writes the snapshot and settings.json before it
\* looks at failed_outputs.
FinishCommitsFirst ==
    /\ pc = "rows"
    /\ idx > Len(target_rows)
    /\ snapshot' = RowsFile(WriteRows(current_rows))
    /\ settings' = [settings EXCEPT ![worker.dir] = SettingsPayload(worker)]
    /\ IF failed_outputs # <<>>
       THEN /\ terminal' = "failed" /\ signal' = "failed"
            /\ details' = FailureMessage(failed_outputs)
       ELSE /\ terminal' = "done" /\ signal' = "done"
            /\ UNCHANGED details
    /\ pc' = "returned"
    /\ UNCHANGED << csv, files, config, btn_start, worker, localVars, readOk, calls,
                    handled, snapshot0, files0, settings0, prev, starts, envOps,
                    raised >>
    /\ Quiet

\* An end of run() that emits done whatever failed_outputs holds.
FinishReportsDone ==
    /\ pc = "rows"
    /\ idx > Len(target_rows)
    /\ IF failed_outputs # <<>>
       THEN UNCHANGED << snapshot, settings >>
       ELSE /\ snapshot' = RowsFile(WriteRows(current_rows))
            /\ settings' = [settings EXCEPT ![worker.dir] = SettingsPayload(worker)]
    /\ terminal' = "done" /\ signal' = "done"
    /\ pc' = "returned"
    /\ UNCHANGED << csv, files, config, btn_start, worker, localVars, readOk, calls,
                    handled, snapshot0, files0, settings0, prev, starts, envOps,
                    details, raised >>
    /\ Quiet

\* The end of _run_impl and of run(): failed_outputs raises and run() emits
\* failed; otherwise the snapshot and settings.json are written and run()
\* emits done.
Finish ==
    /\ pc = "rows"
    /\ idx > Len(target_rows)
    /\ IF failed_outputs # <<>>
       THEN /\ terminal' = "failed" /\ signal' = "failed"
            /\ details' = FailureMessage(failed_outputs)
            /\ UNCHANGED << snapshot, settings >>
       ELSE /\ snapshot' = RowsFile(WriteRows(current_rows))
            /\ settings' = [settings EXCEPT ![worker.dir] = SettingsPayload(worker)]
            /\ terminal' = "done" /\ signal' = "done"
            /\ UNCHANGED details
    /\ pc' = "returned"
    /\ UNCHANGED << csv, files, config, btn_start, worker, localVars, readOk, calls,
                    handled, snapshot0, files0, settings0, prev, starts, envOps,
                    raised >>
    /\ Quiet

\* A call into the file system or the speech SDK raises somewhere in
\* _run_impl: run() catches it and emits failed.  Raised by the write of
\* settings.json, the exception leaves the snapshot written.
RunRaises ==
    /\ pc \in { "start", "diff", "rows", "tts" }
    /\ \/ UNCHANGED snapshot
       \/ /\ pc = "rows" /\ idx > Len(target_rows) /\ failed_outputs = <<>>
          /\ snapshot' = RowsFile(WriteRows(current_rows))
    /\ raised' = TRUE
    /\ terminal' = "failed" /\ signal' = "failed"
    /\ details' = [NoDetails EXCEPT !.kind = "Exception"]
    /\ pc' = "returned"
    /\ UNCHANGED << csv, files, settings, config, btn_start, worker, localVars,
                    readOk, calls, handled, snapshot0, files0, settings0, prev,
                    starts, envOps >>
    /\ Quiet

\* run() has returned: the thread is no longer running.
ThreadExit ==
    /\ pc = "returned"
    /\ pc' = "idle"
    /\ prev' = [valid |-> readOk, rows |-> current_rows, worker |-> worker,
                terminal |-> terminal,
                complete |-> \A i \in DOMAIN current_rows :
                    files[worker.dir][ReplaceColon(current_rows[i].path)].exists,
                envOps |-> envOps]
    /\ current_rows' = <<>> /\ last_rows' = <<>>
    /\ changed_rows' = <<>> /\ new_rows' = <<>> /\ target_rows' = <<>>
    /\ idx' = 0 /\ retry_count' = 0 /\ failed_outputs' = <<>>
    /\ terminal' = "none" /\ readOk' = FALSE /\ calls' = 0 /\ handled' = <<>>
    /\ snapshot0' = NoRows
    /\ files0' = [d \in Dirs |-> [f \in AllFiles |-> NoFile]]
    /\ settings0' = [d \in Dirs |-> NoSettings]
    /\ raised' = FALSE
    /\ UNCHANGED << diskVars, guiVars, worker, starts, envOps, details >>
    /\ Quiet

\* ------------------------------------------------------------- the user
\* The user replaces the input CSV, or removes it, between two runs.
EditCsv(c) ==
    /\ pc = "idle" /\ starts >= 1
    /\ envOps < MaxEnvOps
    /\ c # csv
    /\ csv' = c
    /\ envOps' = envOps + 1
    /\ UNCHANGED << snapshot, files, settings, config, guiVars, pc, worker,
                    localVars, ghostVars, prev, starts, details, raised >>
    /\ Quiet

\* The user removes the input CSV after the window checked it and before
\* the worker resolves it.
RemoveCsv ==
    /\ pc = "start"
    /\ envOps < MaxEnvOps
    /\ csv.exists
    /\ csv' = NoRows
    /\ envOps' = envOps + 1
    /\ UNCHANGED << snapshot, files, settings, config, guiVars, pc, worker,
                    localVars, ghostVars, prev, starts, details, raised >>
    /\ Quiet

\* The user deletes an output file by hand.
UserDeleteFile(d, f) ==
    /\ pc = "idle"
    /\ envOps < MaxEnvOps
    /\ files[d][f].exists
    /\ files' = [files EXCEPT ![d][f] = NoFile]
    /\ envOps' = envOps + 1
    /\ UNCHANGED << csv, snapshot, settings, config, guiVars, pc, worker,
                    localVars, ghostVars, prev, starts, details, raised >>
    /\ Quiet

\* The user drops a file of their own, too small to be audio, into a voice
\* output directory.
UserPutFile(d, f) ==
    /\ pc = "idle"
    /\ envOps < MaxEnvOps
    /\ ~files[d][f].exists
    /\ files' = [files EXCEPT ![d][f] = AudioFile(ForeignText, MinAudioBytes - 1)]
    /\ envOps' = envOps + 1
    /\ UNCHANGED << csv, snapshot, settings, config, guiVars, pc, worker,
                    localVars, ghostVars, prev, starts, details, raised >>
    /\ Quiet

Next ==
    \/ \E ui \in UiInputs, voice \in Dirs \cup { NoVoice } : OnStartSynthesis(ui, voice)
    \/ OnSynthesisDone
    \/ OnSynthesisFailed
    \/ RunResolve
    \/ RunDiff
    \/ RowStep
    \/ \E o \in TtsOutcomes : Attempt(o)
    \/ Finish
    \/ ThreadExit
    \/ \E c \in { RowsFile(x) : x \in CsvContents } \cup { NoRows } : EditCsv(c)
    \/ RemoveCsv
    \/ \E d \in Dirs, f \in RelFiles : UserDeleteFile(d, f)
    \/ \E d \in Dirs, f \in RelFiles : UserPutFile(d, f)

Spec == Init /\ [][Next]_vars

\* --------------------------------------- the end of a run with failed rows
\* The files that fail, the rows that name them, and a worker.
MsgFiles == { <<"a">>, <<"b">> }
MsgRows(failed) == [i \in DOMAIN failed |-> CsvRow(failed[i], <<"H">>)]
MsgWorker == [dir |-> "d1", style |-> "Default", speed |-> 125,
              post_silence |-> 25, pre_silence |-> 0]

\* A first run has left its for loop: every row exhausted its retries.
MsgInit ==
    /\ Constructed
    /\ NothingBuilt
    /\ failed_outputs \in SeqsUpTo(MsgFiles, MaxFailed)
    /\ current_rows = MsgRows(failed_outputs)
    /\ csv = RowsFile(WriteRows(current_rows))
    /\ snapshot = RowsFile(WriteRows(current_rows))
    /\ files = [d \in Dirs |-> [f \in AllFiles |-> NoFile]]
    /\ settings = [d \in Dirs |-> NoSettings]
    /\ config = [exists |-> TRUE, Voice |-> MsgWorker.dir, Style |-> MsgWorker.style,
                 Speed |-> MsgWorker.speed, PostSilence |-> MsgWorker.post_silence,
                 PreSilence |-> MsgWorker.pre_silence]
    /\ btn_start = FALSE /\ signal = "none"
    /\ pc = "rows"
    /\ worker = MsgWorker
    /\ last_rows = current_rows
    /\ changed_rows = <<>> /\ new_rows = <<>> /\ target_rows = current_rows
    /\ idx = Len(target_rows) + 1 /\ retry_count = IF target_rows = <<>> THEN 0 ELSE MaxRetries
    /\ terminal = "none" /\ readOk = TRUE
    /\ calls = retry_count
    /\ handled = [i \in DOMAIN target_rows |-> Handled("exhausted", MaxRetries)]
    /\ snapshot0 = NoRows /\ files0 = files /\ settings0 = settings
    /\ prev = NoPrev
    /\ starts = 1 /\ envOps = 0
    /\ platform = "posix"
    /\ notice = "none" /\ request = "none" /\ details = NoDetails /\ raised = FALSE
    /\ preview_pc = "idle" /\ btn_play = TRUE /\ preview_signal = "none"
    /\ sample = NoFile /\ preview_calls = 0 /\ preview_out = NoOutcome /\ previews = 0

MsgNext ==
    \/ Finish
    \/ OnSynthesisDone
    \/ OnSynthesisFailed
    \/ ThreadExit

MsgSpec == MsgInit /\ [][MsgNext]_vars

\* ------------------------------------- the batch thread, scheduled fairly
\* A step of the batch thread.  The thread is not held back for ever, and
\* every speech call returns.
WorkerStep ==
    \/ RunResolve
    \/ RunDiff
    \/ RowStep
    \/ \E o \in TtsOutcomes : Attempt(o)
    \/ Finish

LiveSpec == Init /\ [][Next]_vars /\ WF_vars(WorkerStep)

\* ------------------------------------------- the batch with calls that raise
FaultNext ==
    \/ \E ui \in UiInputs, voice \in Dirs \cup { NoVoice } : OnStartSynthesis(ui, voice)
    \/ OnSynthesisDone
    \/ OnSynthesisFailed
    \/ RunResolve
    \/ RunDiff
    \/ RowStep
    \/ \E o \in TtsOutcomes : Attempt(o)
    \/ Finish
    \/ RunRaises
    \/ ThreadExit
    \/ \E c \in { RowsFile(x) : x \in CsvContents } \cup { NoRows } : EditCsv(c)
    \/ RemoveCsv

FaultSpec == Init /\ [][FaultNext]_vars

\* ------------------------------------------------- the path test, both flavours
PathInit ==
    /\ csv \in { RowsFile(c) : c \in PathCsvContents }
    /\ platform \in Platforms
    /\ InitRest

PathNext ==
    \/ \E ui \in UiInputs, voice \in Dirs \cup { NoVoice } : OnStartSynthesis(ui, voice)
    \/ OnSynthesisDone
    \/ OnSynthesisFailed
    \/ RunResolve
    \/ RunDiff
    \/ RowStep
    \/ \E o \in TtsOutcomes : Attempt(o)
    \/ Finish
    \/ ThreadExit
    \/ \E c \in { RowsFile(x) : x \in PathCsvContents } : EditCsv(c)

PathSpec == PathInit /\ [][PathNext]_vars

\* --------------------------------------------- one path, several texts
ChangeInit ==
    /\ csv \in { RowsFile(c) : c \in ChangeCsvContents }
    /\ platform = "posix"
    /\ InitRest

ChangeNext ==
    \/ \E ui \in UiInputs, voice \in Dirs \cup { NoVoice } : OnStartSynthesis(ui, voice)
    \/ OnSynthesisDone
    \/ OnSynthesisFailed
    \/ RunResolve
    \/ RunDiff
    \/ RowStep
    \/ \E o \in TtsOutcomes : Attempt(o)
    \/ Finish
    \/ ThreadExit
    \/ \E c \in { RowsFile(x) : x \in ChangeCsvContents } : EditCsv(c)

ChangeSpec == ChangeInit /\ [][ChangeNext]_vars

\* --------------------------------------------- the batch and the preview
\* Input CSV files of one plain row at most.
PreviewCsvContents == SeqsUpTo({ [path |-> <<"a">>, text |-> <<"H">>] }, 1)

PreviewInit ==
    /\ csv \in { RowsFile(c) : c \in PreviewCsvContents }
    /\ platform = "posix"
    /\ InitRest

PreviewNext ==
    \/ \E ui \in UiInputs, voice \in Dirs \cup { NoVoice } : OnStartSynthesis(ui, voice)
    \/ OnSynthesisDone
    \/ OnSynthesisFailed
    \/ RunResolve
    \/ RunDiff
    \/ RowStep
    \/ \E o \in TtsOutcomes : Attempt(o)
    \/ Finish
    \/ ThreadExit
    \/ \E ui \in UiInputs, voice \in Dirs \cup { NoVoice }, hasText \in BOOLEAN :
          OnPlaySample(ui, voice, hasText)
    \/ \E o \in PreviewOutcomes : PreviewRun(o)
    \/ OnPreviewDone
    \/ OnPreviewFailed
    \/ PreviewExit

PreviewSpec == PreviewInit /\ [][PreviewNext]_vars

\* ---------------------------------------------- the runs after a first run
\* Cells of the CSV of the runs that follow: the path of the first run with
\* its text and with another one, a second path, and a path with a parent
\* segment whose text is not that of the first run.
RerunRawRows == { [path |-> <<"a">>, text |-> <<"H">>],
                  [path |-> <<"a">>, text |-> <<"Y">>],
                  [path |-> <<"b">>, text |-> <<"H">>],
                  [path |-> <<".", ".", "/", "a">>, text |-> <<"Y">>] }

RerunCsvContents == SeqsUpTo(RerunRawRows, MaxRows)

\* The CSV of the first run: one row, with a plain path or with a parent
\* segment.
FirstCsvContents == { << [path |-> <<"a">>, text |-> <<"H">>] >>,
                      << [path |-> <<".", ".", "/", "a">>, text |-> <<"H">>] >> }

\* The audio files a run over rows leaves when every call succeeds at once:
\* one for each row with a safe path, holding the text of the first row that
\* names it.
FilesOfRun(rows) ==
    [f \in AllFiles |->
        LET at == { i \in DOMAIN rows :
                      ~IsUnsafe(rows[i].path) /\ ReplaceColon(rows[i].path) = f }
        IN  IF at = {} THEN NoFile
            ELSE AudioFile(rows[CHOOSE i \in at : \A j \in at : i <= j].text_to_play,
                           MinAudioBytes)]

\* A first run over a CSV of FirstCsvContents has ended with done, its signal
\* was handled and its thread has finished; the input CSV is now any of
\* RerunCsvContents.  The presses of the start button are counted from here.
RerunInit ==
    /\ Constructed
    /\ NothingBuilt
    /\ csv \in { RowsFile(c) : c \in RerunCsvContents }
    /\ platform = "posix"
    /\ \E c0 \in FirstCsvContents :
          /\ snapshot = RowsFile(WriteRows(ReadCsvRows(c0)))
          /\ files = [d \in Dirs |->
                        IF d = MsgWorker.dir THEN FilesOfRun(ReadCsvRows(c0))
                        ELSE [f \in AllFiles |-> NoFile]]
    /\ settings = [d \in Dirs |->
                     IF d = MsgWorker.dir THEN SettingsPayload(MsgWorker) ELSE NoSettings]
    /\ config = [exists |-> TRUE, Voice |-> MsgWorker.dir, Style |-> MsgWorker.style,
                 Speed |-> MsgWorker.speed, PostSilence |-> MsgWorker.post_silence,
                 PreSilence |-> MsgWorker.pre_silence]
    /\ btn_start = TRUE /\ signal = "none"
    /\ pc = "idle"
    /\ worker = MsgWorker
    /\ current_rows = <<>> /\ last_rows = <<>>
    /\ changed_rows = <<>> /\ new_rows = <<>> /\ target_rows = <<>>
    /\ idx = 0 /\ retry_count = 0 /\ failed_outputs = <<>>
    /\ terminal = "none" /\ readOk = FALSE /\ calls = 0 /\ handled = <<>>
    /\ snapshot0 = NoRows
    /\ files0 = [d \in Dirs |-> [f \in AllFiles |-> NoFile]]
    /\ settings0 = [d \in Dirs |-> NoSettings]
    /\ prev = NoPrev
    /\ starts = 0 /\ envOps = 0
    /\ notice = "none" /\ request = "none" /\ details = NoDetails /\ raised = FALSE
    /\ preview_pc = "idle" /\ btn_play = TRUE /\ preview_signal = "none"
    /\ sample = NoFile /\ preview_calls = 0 /\ preview_out = NoOutcome /\ previews = 0

RerunNext ==
    \/ \E ui \in UiInputs, voice \in Dirs \cup { NoVoice } : OnStartSynthesis(ui, voice)
    \/ OnSynthesisDone
    \/ OnSynthesisFailed
    \/ RunResolve
    \/ RunDiff
    \/ RowStep
    \/ \E o \in TtsOutcomes : Attempt(o)
    \/ Finish
    \/ ThreadExit
    \/ \E d \in Dirs, f \in RelFiles : UserPutFile(d, f)

RerunSpec == RerunInit /\ [][RerunNext]_vars

\* ------------------------------------------------------------ the startup
\* Texts of a key and of a region, as stored in credentials.json or typed
\* into the dialog.
KeyTexts == { <<>>, <<" ">>, <<"k">>, <<" ", "k">>, <<"yourkey">> }
RegionTexts == { <<>>, <<"r">>, <<"r", " ">>, <<"yourregion">> }

\* default_creds
DefaultCreds == Credentials(<<"yourkey">>, <<"yourregion">>)

\* not key or not region_value or key == "yourkey" or region_value == "yourregion"
NeedsPrompt(k, r) ==
    k = <<>> \/ r = <<>> \/ k = <<"yourkey">> \/ r = <<"yourregion">>

\* What get_voices_async("").get() can come back with: it may also raise.
FetchOutcomes ==
    [reason : { "None", "Canceled", "Raised" }, voices : { <<>> }]
    \cup [reason : { "VoicesListRetrieved" }, voices : { <<>>, << "v1", "v2" >> }]

\* The rest of the program is not running during startup.
StartupOnly ==
    request' = "none" /\ UNCHANGED << batchVars, platform, ssmlVars, previewVars >>

\* _ensure_credentials up to the first dialog: credentials.json is created
\* with the default content when it is missing, and read.
EnsureCredentials ==
    /\ startup = "boot"
    /\ LET stored == IF credentials.exists THEN credentials ELSE DefaultCreds
           k == Strip(stored.Key)
           r == Strip(stored.Region)
       IN  /\ credentials' = stored
           /\ IF NeedsPrompt(k, r)
              THEN startup' = "ask_key" /\ UNCHANGED << key, azure_region >>
              ELSE startup' = "voices" /\ key' = k /\ azure_region' = r
    /\ notice' = "none"
    /\ UNCHANGED << voices_file, voices, fetch, credentials0, voices_file0 >>
    /\ StartupOnly

\* The dialog for the key returns text and ok: main() shows the startup
\* error when the dialog was cancelled or the text is blank.
AskKey(text, ok) ==
    /\ startup = "ask_key"
    /\ IF ~ok \/ Strip(text) = <<>>
       THEN startup' = "aborted" /\ notice' = "Startup Error" /\ UNCHANGED key
       ELSE startup' = "ask_region" /\ notice' = "none" /\ key' = text
    /\ UNCHANGED << credentials, voices_file, voices, azure_region, fetch,
                    credentials0, voices_file0 >>
    /\ StartupOnly

\* The dialog for the region returns text and ok: with both texts the
\* payload is written to credentials.json.
AskRegion(text, ok) ==
    /\ startup = "ask_region"
    /\ IF ~ok \/ Strip(text) = <<>>
       THEN /\ startup' = "aborted" /\ notice' = "Startup Error"
            /\ UNCHANGED << credentials, key, azure_region >>
       ELSE /\ credentials' = Credentials(Strip(key), Strip(text))
            /\ key' = Strip(key) /\ azure_region' = Strip(text)
            /\ startup' = "voices" /\ notice' = "none"
    /\ UNCHANGED << voices_file, voices, fetch, credentials0, voices_file0 >>
    /\ StartupOnly

\* _load_or_fetch_voices: voices.json is read when it exists; otherwise the
\* catalog is fetched, and written to voices.json when the fetch succeeded.
\* The window is shown after it; main() shows the startup error when the
\* fetch failed.
LoadOrFetchVoices(o) ==
    /\ startup = "voices"
    /\ IF voices_file.exists
       THEN /\ voices' = voices_file.list
            /\ startup' = "window" /\ notice' = "none"
            /\ UNCHANGED << voices_file, fetch >>
       ELSE /\ fetch' = o.reason
            /\ IF o.reason # "VoicesListRetrieved"
               THEN /\ startup' = "aborted" /\ notice' = "Startup Error"
                    /\ UNCHANGED << voices, voices_file >>
               ELSE /\ voices' = o.voices
                    /\ voices_file' = VoicesFile(o.voices)
                    /\ startup' = "window" /\ notice' = "none"
    /\ UNCHANGED << credentials, key, azure_region, credentials0, voices_file0 >>
    /\ StartupOnly

\* The program is started: credentials.json and voices.json are as an
\* earlier start or the user left them, and nothing else has happened.
StartupInit ==
    /\ NothingBuilt
    /\ startup = "boot"
    /\ credentials \in { NoCredentials }
                        \cup { Credentials(k, r) : k \in KeyTexts, r \in RegionTexts }
    /\ voices_file \in { NoVoices, VoicesFile(CachedVoices) }
    /\ voices = <<>>
    /\ key = <<>> /\ azure_region = <<>>
    /\ fetch = "none"
    /\ credentials0 = credentials /\ voices_file0 = voices_file
    /\ csv = NoRows
    /\ platform = "posix"
    /\ snapshot = NoRows
    /\ files = [d \in Dirs |-> [f \in AllFiles |-> NoFile]]
    /\ settings = [d \in Dirs |-> NoSettings]
    /\ config = NoConfig
    /\ btn_start = TRUE
    /\ signal = "none"
    /\ pc = "idle"
    /\ worker = NoWorker
    /\ current_rows = <<>> /\ last_rows = <<>>
    /\ changed_rows = <<>> /\ new_rows = <<>> /\ target_rows = <<>>
    /\ idx = 0 /\ retry_count = 0 /\ failed_outputs = <<>>
    /\ terminal = "none" /\ readOk = FALSE /\ calls = 0 /\ handled = <<>>
    /\ snapshot0 = NoRows
    /\ files0 = files
    /\ settings0 = settings
    /\ prev = NoPrev
    /\ starts = 0 /\ envOps = 0
    /\ notice = "none" /\ request = "none" /\ details = NoDetails /\ raised = FALSE
    /\ preview_pc = "idle" /\ btn_play = TRUE /\ preview_signal = "none"
    /\ sample = NoFile /\ preview_calls = 0 /\ preview_out = NoOutcome /\ previews = 0

StartupNext ==
    \/ EnsureCredentials
    \/ \E text \in KeyTexts, ok \in BOOLEAN : AskKey(text, ok)
    \/ \E text \in RegionTexts, ok \in BOOLEAN : AskRegion(text, ok)
    \/ \E o \in FetchOutcomes : LoadOrFetchVoices(o)

StartupSpec == StartupInit /\ [][StartupNext]_vars

\* ----------------------------------------------------- the markup builder
MaxText == 4        \* characters of a text handed to build_ssml
MaxDelta == 25      \* steps of 0.00001 a speed multiplier lies off 1.0

\* A speed multiplier is counted in steps of 0.00001: this is 1.0.
SpeedUnit == 100000

\* The characters of a text: the five reserved ones, a letter and the
\* semicolon.
TextChars == { "&", "<", ">", "\"", "'", "a", ";" }
Texts == SeqsUpTo(TextChars, MaxText)

Styles == { "Default", "Chat", "Narration" }

\* Speed multipliers at and about 1.0, and some far from it.
Speeds ==
    { SpeedUnit + d : d \in (0 - MaxDelta)..MaxDelta }
    \cup { 0, 75000, 90000, 125000, 267500 }

\* str.replace(ch, ent)
RECURSIVE Replace(_, _, _)
Replace(s, ch, ent) ==
    IF s = <<>> THEN <<>>
    ELSE (IF Head(s) = ch THEN ent ELSE << Head(s) >>) \o Replace(Tail(s), ch, ent)

Amp == << "&", "a", "m", "p", ";" >>
Lt == << "&", "l", "t", ";" >>
Gt == << "&", "g", "t", ";" >>
Quot == << "&", "q", "u", "o", "t", ";" >>
Apos == << "&", "a", "p", "o", "s", ";" >>

\* An escape that replaces the ampersand last.
EscapeAmpLast(value) ==
    Replace(Replace(Replace(Replace(Replace(value, "<", Lt), ">", Gt),
                            "\"", Quot), "'", Apos), "&", Amp)

\* escape_xml_text: five replacements one after another, the ampersand first.
EscapeXmlText(value) ==
    Replace(Replace(Replace(Replace(Replace(value, "&", Amp), "<", Lt), ">", Gt),
                    "\"", Quot), "'", Apos)

Digit(d) == << "0", "1", "2", "3", "4", "5", "6", "7", "8", "9" >>[d + 1]

\* The decimal digits of a natural number.
RECURSIVE Decimal(_)
Decimal(n) == IF n < 10 THEN << Digit(n) >> ELSE Decimal(n \div 10) \o << Digit(n % 10) >>

\* A format that cuts the digits behind the second decimal off.
RateTruncated(speed, tieUp) ==
    LET t == speed - SpeedUnit
        a == IF t < 0 THEN 0 - t ELSE t
        h == a \div 10
    IN  << (IF t < 0 THEN "-" ELSE "+") >> \o Decimal(h \div 100) \o << "." >>
            \o << Digit((h % 100) \div 10), Digit(h % 10) >> \o << "%" >>

\* speed_multiplier_to_rate: percentage = (speed - 1.0) * 100.0, formatted
\* with +.2f and a percent sign.  t is the percentage in thousandths: a step
\* of 0.00001 of the multiplier is a thousandth of a percent.  The
\* format rounds to the nearer hundredth; where the decimal value lies half
\* way, the binary value lies on one side of it or the other: tieUp.
SpeedMultiplierToRate(speed, tieUp) ==
    LET t == speed - SpeedUnit
        a == IF t < 0 THEN 0 - t ELSE t
        h == IF a % 10 < 5 THEN a \div 10
             ELSE IF a % 10 > 5 THEN a \div 10 + 1
             ELSE IF tieUp THEN a \div 10 + 1 ELSE a \div 10
    IN  << (IF t < 0 THEN "-" ELSE "+") >> \o Decimal(h \div 100) \o << "." >>
            \o << Digit((h % 100) \div 10), Digit(h % 10) >> \o << "%" >>

\* style.lower()
Lower(style) ==
    CASE style = "Default" -> "default"
      [] style = "Chat" -> "chat"
      [] style = "Narration" -> "narration"
      [] OTHER -> style

\* The markup build_ssml returns, by its parts: the style of the express-as
\* wrapper (none for the default style), the rate of the prosody element,
\* the two silences and the text between them.
BuildSsmlOf(in, tieUp) ==
    [built |-> TRUE,
     style |-> IF Lower(in.style) = "default" THEN "" ELSE Lower(in.style),
     rate |-> SpeedMultiplierToRate(in.speed, tieUp),
     leading |-> in.pre_silence,
     text |-> EscapeXmlText(in.text),
     trailing |-> in.post_silence]

SsmlIn(text, style, speed) ==
    [text |-> text, style |-> style, speed |-> speed, pre_silence |-> 0,
     post_silence |-> 25]

\* build_ssml is called with the arguments in hand.
BuildSsml(tieUp) ==
    /\ ~ssml.built
    /\ ssml_in # NoSsmlIn
    /\ ssml' = BuildSsmlOf(ssml_in, tieUp)
    /\ notice' = "none" /\ request' = "none"
    /\ UNCHANGED << batchVars, platform, startVars, ssml_in, previewVars >>

\* A call of build_ssml is at hand: with any text at the default speed and
\* style, or with any speed and style for a text of one letter.
SsmlInit ==
    /\ ssml_in \in { SsmlIn(text, "Default", 125000) : text \in Texts }
                   \cup { SsmlIn(<<"a">>, style, speed) : style \in Styles, speed \in Speeds }
    /\ ssml = NoSsml
    /\ Constructed
    /\ csv = NoRows
    /\ platform = "posix"
    /\ snapshot = NoRows
    /\ files = [d \in Dirs |-> [f \in AllFiles |-> NoFile]]
    /\ settings = [d \in Dirs |-> NoSettings]
    /\ config = NoConfig
    /\ btn_start = TRUE
    /\ signal = "none"
    /\ pc = "idle"
    /\ worker = NoWorker
    /\ current_rows = <<>> /\ last_rows = <<>>
    /\ changed_rows = <<>> /\ new_rows = <<>> /\ target_rows = <<>>
    /\ idx = 0 /\ retry_count = 0 /\ failed_outputs = <<>>
    /\ terminal = "none" /\ readOk = FALSE /\ calls = 0 /\ handled = <<>>
    /\ snapshot0 = NoRows
    /\ files0 = files
    /\ settings0 = settings
    /\ prev = NoPrev
    /\ starts = 0 /\ envOps = 0
    /\ notice = "none" /\ request = "none" /\ details = NoDetails /\ raised = FALSE
    /\ preview_pc = "idle" /\ btn_play = TRUE /\ preview_signal = "none"
    /\ sample = NoFile /\ preview_calls = 0 /\ preview_out = NoOutcome /\ previews = 0

SsmlNext == \E tieUp \in BOOLEAN : BuildSsml(tieUp)

SsmlSpec == SsmlInit /\ [][SsmlNext]_vars

\* ------------------------------------------------------------ properties
\* The run has ended (its terminal signal is emitted, the thread has not yet
\* exited), and it had read its CSV.
RunEnded == pc = "returned" /\ readOk

\* The change detector has run in this run.
Diffed == readOk /\ pc \in { "rows", "tts", "returned" }

Range(seq) == { seq[i] : i \in DOMAIN seq }

\* The file of target row i.
FileOfTarget(i) == ReplaceColon(target_rows[i].path)

\* The target rows that exhausted their retries in this run.
Exhausted == { i \in DOMAIN handled : handled[i].how = "exhausted" }

\* The paths of the current rows are pairwise different.
UniquePaths ==
    \A i, j \in DOMAIN current_rows :
        current_rows[i].path = current_rows[j].path => i = j

\* C1: within a run, every row that is synthesised gets at most 3 speech
\* calls, counted from 0 for each row: while a row is retried every call so
\* far has been counted as a failure and fewer than 3 were made, a row ends
\* as exhausted after exactly 3 calls, and a skipped row gets none.
C1_AtMostThreeAttempts ==
    /\ calls <= 3
    /\ pc = "tts" => calls = retry_count /\ calls < 3
    /\ \A i \in DOMAIN handled :
          /\ handled[i].calls <= 3
          /\ handled[i].how = "exhausted" => handled[i].calls = 3
          /\ handled[i].how \in { "unsafe", "exists" } => handled[i].calls = 0

\* C1 witness: two rows of one run each exhausted their own 3 calls.
C1_Witness ==
    /\ RunEnded
    /\ Len(handled) = 2
    /\ handled[1] = Handled("exhausted", 3)
    /\ handled[2] = Handled("exhausted", 3)

C3_BatchNotAborted ==
    RunEnded =>
        /\ Len(handled) = Len(target_rows)
        /\ \A i \in DOMAIN handled :
              /\ handled[i].how \in { "unsafe", "exists", "ok", "exhausted" }
              /\ handled[i].how = "unsafe" <=> IsUnsafe(target_rows[i].path)
              /\ handled[i].how \in { "ok", "exhausted" } => handled[i].calls \in 1..3

\* C3 witness: the first row exhausted its calls and the second one was then
\* synthesised, succeeding on its third call.
C3_Witness ==
    /\ RunEnded
    /\ Len(target_rows) = 2
    /\ Len(handled) = 2
    /\ handled[1].how = "exhausted"
    /\ handled[2] = Handled("ok", 3)

\* C4 (as claimed): at the end of a run every file that exhausted its retries
\* is absent from the voice output directory and in the failure list, and
\* the failure list holds exactly those files.
C4_ExhaustedFilesAbsent ==
    RunEnded =>
        /\ \A i \in Exhausted :
              /\ ~files[worker.dir][FileOfTarget(i)].exists
              /\ FileOfTarget(i) \in Range(failed_outputs)
        /\ Range(failed_outputs) = { FileOfTarget(i) : i \in Exhausted }
        /\ Len(failed_outputs) = Cardinality(Exhausted)

\* C4 where no two rows of the CSV have the same path.
C4_UniquePaths == UniquePaths => C4_ExhaustedFilesAbsent

\* C4 where no two rows of the CSV have the same path: the case happens.
C4_UniquePathsWitness ==
    RunEnded /\ UniquePaths /\ Cardinality(Exhausted) = 2

\* C5: a run that handled every target row with an empty failure list emits
\* done, not failed; the snapshot then holds the rows read from the CSV, in
\* their order, and settings.json of the run's voice output directory holds
\* the style, speed, trailing and leading silence the worker was started with.
C5_SuccessCommits ==
    /\ (RunEnded /\ failed_outputs = <<>>) => terminal = "done"
    /\ (pc = "returned" /\ terminal = "done") =>
          /\ failed_outputs = <<>>
          /\ snapshot.exists
          /\ ReadCsvRows(snapshot.cells) = current_rows
          /\ settings[worker.dir] =
                [exists |-> TRUE, style |-> worker.style, multiplier |-> worker.speed,
                 trailingSilence |-> worker.post_silence,
                 leadingSilence |-> worker.pre_silence]
          /\ settings[worker.dir].multiplier = config.Speed
          /\ settings[worker.dir].trailingSilence = config.PostSilence
          /\ settings[worker.dir].leadingSilence = config.PreSilence
          /\ settings[worker.dir].style = config.Style

\* C5 witness: a run over two rows, one of them synthesised, has emitted done
\* and replaced an older snapshot.
C5_Witness ==
    /\ pc = "returned" /\ terminal = "done"
    /\ Len(current_rows) = 2
    /\ \E i \in DOMAIN handled : handled[i].how = "ok"
    /\ snapshot0.exists /\ snapshot # snapshot0

\* The classes of a current row against the rows read from the snapshot: the
\* text the snapshot holds for a path is that of its last row with the path.
RECURSIVE SnapshotText(_, _, _)
SnapshotText(rows, p, found) ==
    IF rows = <<>> THEN found
    ELSE SnapshotText(Tail(rows), p,
                      IF Head(rows).path = p THEN << Head(rows).text_to_play >>
                      ELSE found)

IsNewRow(row) == SnapshotText(last_rows, row.path, <<>>) = <<>>
IsChangedRow(row) ==
    /\ ~IsNewRow(row)
    /\ SnapshotText(last_rows, row.path, <<>>) # << row.text_to_play >>
IsUnchangedRow(row) ==
    SnapshotText(last_rows, row.path, <<>>) = << row.text_to_play >>

\* C6: the change detector puts each current row in exactly one class: the
\* list of new rows holds the rows whose path the snapshot lacks, the list of
\* changed rows those whose path it has with another text, both in CSV
\* order; the rows in neither list are those the snapshot has with the same
\* text, and the three classes count the current rows once each.
C6_DiffPartitions ==
    Diffed =>
        /\ new_rows = SelectSeq(current_rows, IsNewRow)
        /\ changed_rows = SelectSeq(current_rows, IsChangedRow)
        /\ \A i \in DOMAIN current_rows :
              LET row == current_rows[i]
                  inNew == row \in Range(new_rows)
                  inChanged == row \in Range(changed_rows)
                  inNeither == ~inNew /\ ~inChanged
              IN  /\ ~(inNew /\ inChanged)
                  /\ inNeither <=> IsUnchangedRow(row)
        /\ Len(new_rows) + Len(changed_rows)
             + Len(SelectSeq(current_rows, IsUnchangedRow)) = Len(current_rows)

\* C6 witness: one run found a new row and a changed row, against a snapshot
\* that holds two texts for the changed row's path.
C6_Witness ==
    /\ Diffed
    /\ new_rows # <<>> /\ changed_rows # <<>>
    /\ \E i, j \in DOMAIN last_rows :
          /\ i < j
          /\ last_rows[i].path = last_rows[j].path
          /\ last_rows[i].text_to_play # last_rows[j].text_to_play
          /\ last_rows[i].path = changed_rows[1].path

\* C7: the targets are the changed rows followed by the new rows when there
\* are both, the non-empty list when there is one, and all current rows in
\* CSV order when there is neither; with a new or changed row among the
\* current rows, no unchanged row is a target.
C7_TargetSelection ==
    Diffed =>
        /\ (changed_rows # <<>> /\ new_rows # <<>>) => target_rows = changed_rows \o new_rows
        /\ (changed_rows # <<>> /\ new_rows = <<>>) => target_rows = changed_rows
        /\ (changed_rows = <<>> /\ new_rows # <<>>) => target_rows = new_rows
        /\ (changed_rows = <<>> /\ new_rows = <<>>) => target_rows = current_rows
        /\ (\E i \in DOMAIN current_rows : ~IsUnchangedRow(current_rows[i])) =>
              \A i \in DOMAIN target_rows : ~IsUnchangedRow(target_rows[i])

\* C7 witness: the CSV has a new row before a changed row, and the targets
\* are the changed row, then the new row.
C7_Witness ==
    /\ Diffed
    /\ Len(current_rows) = 2
    /\ IsNewRow(current_rows[1]) /\ IsChangedRow(current_rows[2])
    /\ target_rows = << current_rows[2], current_rows[1] >>

\* The files of the current rows that lie in the voice output directory,
\* those of them missing when the run began, and those a speech call was
\* made for.
SafeFiles ==
    { ReplaceColon(current_rows[i].path) :
        i \in { j \in DOMAIN current_rows : ~IsUnsafe(current_rows[j].path) } }
Missing0 == { f \in SafeFiles : ~files0[worker.dir][f].exists }
Called ==
    { FileOfTarget(i) : i \in { j \in DOMAIN handled : handled[j].calls > 0 } }
    \cup (IF pc = "tts" THEN { FileOfTarget(idx) } ELSE {})

\* C8 (as claimed): in a run whose CSV rows equal the snapshot rows, speech
\* calls are made only for files of the output directory that were missing
\* when the run began, and by the end of the run for every one of them; when
\* each of these calls succeeded, all those files exist again as valid audio.
C8_MissingFilesRegenerated ==
    (Diffed /\ last_rows = current_rows) =>
        /\ Called \subseteq Missing0
        /\ RunEnded => Called = Missing0
        /\ (RunEnded /\ \A i \in DOMAIN handled :
                           handled[i].calls > 0 => handled[i] = Handled("ok", 1)) =>
              \A f \in Missing0 :
                  /\ files[worker.dir][f].exists
                  /\ files[worker.dir][f].size >= MinAudioBytes

\* C8 where no two rows of the CSV have the same path.
C8_UniquePaths == UniquePaths => C8_MissingFilesRegenerated

\* C8 where no two rows of the CSV have the same path: after a successful run
\* over two rows the user deleted one of the two files; the next run over the
\* same rows called the speech service for that file only, and the file
\* exists again.
C8_UniquePathsWitness ==
    /\ UniquePaths
    /\ RunEnded /\ terminal = "done"
    /\ snapshot0.exists /\ last_rows = current_rows
    /\ prev.valid /\ prev.terminal = "done" /\ prev.worker.dir = worker.dir
    /\ Cardinality(SafeFiles) = 2
    /\ Cardinality(Missing0) = 1
    /\ Called = Missing0
    /\ \A f \in SafeFiles : files[worker.dir][f].exists

\* The run follows, with nothing changed by hand in between, a run that read
\* the same rows, had the same arguments, and left every row's file existing.
RepeatsCompleteRun ==
    /\ prev.valid /\ prev.rows = current_rows /\ prev.worker = worker
    /\ prev.complete /\ prev.envOps = envOps

\* C9 (as claimed): a run that repeats a run with the same CSV and the same
\* parameters, after which every row's file existed, makes no speech call,
\* deletes or changes no file and leaves the snapshot as it was.
C9_SecondRunIdle ==
    (RunEnded /\ RepeatsCompleteRun) =>
        /\ \A i \in DOMAIN handled : handled[i].calls = 0
        /\ files = files0
        /\ snapshot = snapshot0

\* C9 where no two rows of the CSV have the same path.
C9_UniquePaths == UniquePaths => C9_SecondRunIdle

\* C9 where no two rows of the CSV have the same path: the case happens.
C9_UniquePathsWitness ==
    RunEnded /\ RepeatsCompleteRun /\ UniquePaths /\ Len(current_rows) = 2

NamesOutside(p) ==
    LET safe == ReplaceColon(p)
    IN  safe[1] = "/" \/ \E i \in DOMAIN Parts(safe) : Parts(safe)[i] = <<".", ".">>

\* C11 (as claimed): a row whose path, ':' replaced, is absolute or has a
\* '..' segment is passed over with no speech call; no file is created
\* outside the voice output directory; the failure list names no such file;
\* and a run in which no row exhausted its retries ends with done.
C11_UnsafeRowsSkipped ==
    Diffed =>
        /\ \A i \in DOMAIN handled :
              NamesOutside(target_rows[i].path) => handled[i] = Handled("unsafe", 0)
        /\ pc = "tts" => ~NamesOutside(target_rows[idx].path)
        /\ \A f \in AllFiles :
              (NamesOutside(f) /\ files[worker.dir][f].exists) => files0[worker.dir][f].exists
        /\ \A i \in DOMAIN failed_outputs : ~NamesOutside(failed_outputs[i])
        /\ (RunEnded /\ Exhausted = {}) => terminal = "done"

\* C11 with the POSIX flavour of Path.
C11_Posix == platform = "posix" => C11_UnsafeRowsSkipped

\* C11 with the POSIX flavour of Path: a run over a row from the root and a
\* row with a parent segment has passed over both and ended with done.
C11_PosixWitness ==
    /\ platform = "posix"
    /\ RunEnded /\ terminal = "done"
    /\ Len(handled) = 2
    /\ handled[1] = Handled("unsafe", 0) /\ handled[2] = Handled("unsafe", 0)
    /\ target_rows[1].path # target_rows[2].path

\* No speech call has been made in this run so far.
NoCallYet == calls = 0 /\ \A i \in DOMAIN handled : handled[i].calls = 0

\* A speech call was made in this run for a target row of file f.
CalledFor(f) ==
    \E j \in DOMAIN handled : FileOfTarget(j) = f /\ handled[j].calls >= 1

\* C12 (as claimed): a current row whose text differs from the snapshot's text
\* for its path is in the list of changed rows; its old file is gone before
\* the first speech call of the run; by the end of the run a speech call was
\* made for the row; and after a run that ends with done the file at its
\* path holds the row's text.
C12_ChangedRowResynthesised ==
    Diffed =>
        \A i \in DOMAIN current_rows :
            LET row == current_rows[i]
                f == ReplaceColon(row.path)
            IN  IsChangedRow(row) =>
                  /\ row \in Range(changed_rows)
                  /\ NoCallYet => ~files[worker.dir][f].exists
                  /\ RunEnded =>
                        \E j \in DOMAIN handled :
                            target_rows[j] = row /\ handled[j].calls >= 1
                  /\ (RunEnded /\ terminal = "done") =>
                        /\ files[worker.dir][f].exists
                        /\ files[worker.dir][f].text = row.text_to_play

\* C12 (amended): a current row with a safe path whose text differs from the
\* snapshot's text for its path is in the list of changed rows; its old file
\* is gone before the first speech call of the run; by the end of the run a
\* speech call was made for its file; and after a run that ends with done the
\* file holds the new text of a changed row of that path.
C12_SafeChangedRowResynthesised ==
    Diffed =>
        \A i \in DOMAIN current_rows :
            LET row == current_rows[i]
                f == ReplaceColon(row.path)
            IN  (IsChangedRow(row) /\ ~IsUnsafe(row.path)) =>
                  /\ row \in Range(changed_rows)
                  /\ NoCallYet => ~files[worker.dir][f].exists
                  /\ RunEnded => CalledFor(f)
                  /\ (RunEnded /\ terminal = "done") =>
                        /\ files[worker.dir][f].exists
                        /\ \E k \in DOMAIN changed_rows :
                              /\ changed_rows[k].path = row.path
                              /\ files[worker.dir][f].text = changed_rows[k].text_to_play
                        /\ files[worker.dir][f].text # SnapshotText(last_rows, row.path, <<>>)[1]

\* C12 witness: the file of a row existed with the snapshot's text when the
\* run began; the run found the row changed and ended with done, the file
\* holding the new text.
C12_Witness ==
    /\ RunEnded /\ terminal = "done"
    /\ Len(changed_rows) = 1
    /\ ~IsUnsafe(changed_rows[1].path)
    /\ LET f == ReplaceColon(changed_rows[1].path)
       IN  /\ files0[worker.dir][f].exists
           /\ files0[worker.dir][f].text = SnapshotText(last_rows, changed_rows[1].path, <<>>)[1]
           /\ files[worker.dir][f].text = changed_rows[1].text_to_play
           /\ files[worker.dir][f].text # files0[worker.dir][f].text

\* The target rows of file f that ended with a successful speech call.
Synthesised(f) == { j \in DOMAIN handled : FileOfTarget(j) = f /\ handled[j].how = "ok" }

\* C13 (as claimed): in a run that found no snapshot, the snapshot is written
\* from the current rows before the change detector runs, so the detector
\* compares the rows with themselves: no row is new or changed and the
\* targets are all current rows; speech calls are made only for files that
\* were missing when the run began, no file is synthesised twice, and a run
\* that ends with done made exactly one successful call for each missing
\* file; the snapshot holds the current rows from the diff on.
C13_FirstRunSeedsSnapshot ==
    (Diffed /\ ~snapshot0.exists) =>
        /\ snapshot.exists
        /\ ReadCsvRows(snapshot.cells) = current_rows
        /\ last_rows = current_rows
        /\ new_rows = <<>> /\ changed_rows = <<>>
        /\ target_rows = current_rows
        /\ Called \subseteq Missing0
        /\ \A f \in SafeFiles : Cardinality(Synthesised(f)) <= 1
        /\ (RunEnded /\ terminal = "done") =>
              \A f \in Missing0 :
                  /\ Cardinality(Synthesised(f)) = 1
                  /\ files[worker.dir][f].exists

\* C13 where no two rows of the CSV have the same path.
C13_UniquePaths == UniquePaths => C13_FirstRunSeedsSnapshot

\* C13 where no two rows of the CSV have the same path: a run that found no
\* snapshot and one of two files missing has synthesised that file, passed
\* over the other, and ended with done.
C13_UniquePathsWitness ==
    /\ UniquePaths
    /\ RunEnded /\ terminal = "done" /\ ~snapshot0.exists
    /\ Cardinality(SafeFiles) = 2
    /\ Cardinality(Missing0) = 1
    /\ \A f \in Missing0 : Cardinality(Synthesised(f)) = 1
    /\ \E j \in DOMAIN handled : handled[j] = Handled("exists", 0)

\* C14: a batch worker is started only by the start handler, in a step that
\* found no batch worker running, and a preview worker only by the play
\* handler, in a step that found no preview worker running; a press of
\* either button while a worker of its kind runs (the button being enabled
\* again after the worker's signal, the thread not yet finished) shows the
\* busy notice and changes nothing else, so nothing is left to start later.
C14_OneWorkerOfEachKind ==
    [][ /\ (pc' = "start" /\ pc # "start") => (pc = "idle" /\ request' = "start")
        /\ worker' # worker => (pc = "idle" /\ request' = "start")
        /\ (preview_pc' = "start" /\ preview_pc # "start") =>
              (preview_pc = "idle" /\ request' = "play")
        /\ (request' = "start" /\ pc # "idle") =>
              (notice' = "Busy" /\ UNCHANGED << batchVars, previewVars >>)
        /\ (request' = "play" /\ preview_pc # "idle") =>
              (notice' = "Busy" /\ UNCHANGED << batchVars, previewVars >>) ]_vars

\* C14 witness: the start button was pressed after the batch worker's signal
\* was handled and before its thread finished, a preview running as well:
\* the busy notice is shown.
C14_Witness ==
    /\ request = "start" /\ notice = "Busy"
    /\ pc = "returned" /\ btn_start
    /\ preview_pc = "start"

\* C15: the one thread of a batch run takes the target rows one after
\* another in their order: the rows before the one in hand have all ended and
\* none after it was begun; every speech call is made for the row in hand,
\* as a step of its own that has returned when the next step is taken; and a
\* row is left for the next one only when it has ended.
C15_RowsInSequence ==
    /\ []((pc \in { "rows", "tts" }) =>
            /\ Len(handled) = idx - 1
            /\ pc = "tts" => idx <= Len(target_rows))
    /\ [][ (pc \in { "rows", "tts" }) =>
             /\ idx' \in { idx, idx + 1 } \/ pc' = "idle"
             /\ calls' > calls =>
                   /\ pc = "tts"
                   /\ calls' = calls + 1
                   /\ Len(handled) = idx - 1
             /\ (handled' # handled /\ pc' # "idle") =>
                   /\ Len(handled') = Len(handled) + 1
                   /\ SubSeq(handled', 1, Len(handled)) = handled
                   /\ idx' = idx + 1
             /\ (idx' = idx + 1) => Len(handled') = idx ]_vars

\* C15 witness: the first call for the second row has returned; the first
\* row had ended before, after its third call.
C15_Witness ==
    /\ pc = "tts" /\ idx = 2 /\ calls = 1
    /\ Len(handled) = 1
    /\ handled[1] = Handled("exhausted", 3)

\* C16: a batch run emits its one signal in the step in which run() returns,
\* and its thread ends only after that: failed when failed_outputs is not
\* empty, when the CSV was missing or invalid, or when a call into the file
\* system or the speech SDK raised; done otherwise.
C16_OneTerminalSignal ==
    /\ [](/\ pc = "returned" =>
                /\ terminal \in { "done", "failed" }
                /\ terminal = "failed" <=> (failed_outputs # <<>> \/ ~readOk \/ raised)
          /\ pc # "returned" => terminal = "none"
          /\ signal # "none" => pc \in { "returned", "idle" })
    /\ [][ /\ (signal' # signal /\ signal' # "none") =>
                 /\ pc \in { "start", "diff", "rows", "tts" }
                 /\ pc' = "returned"
                 /\ signal = "none"
                 /\ terminal' = signal'
           /\ (pc' = "returned" /\ pc # "returned") => signal' = terminal'
           /\ (pc' = "idle" /\ pc # "idle") => pc = "returned"
           /\ pc = "returned" => (pc' = "returned" => terminal' = terminal) ]_vars

\* C16 witness: a call raised while the second of two rows was being
\* synthesised, no row having exhausted its retries: the run has emitted
\* failed.
C16_Witness ==
    /\ pc = "returned" /\ raised /\ terminal = "failed"
    /\ Len(target_rows) = 2 /\ Len(handled) = 1
    /\ failed_outputs = <<>>
    /\ signal = "failed"

\* The speech calls made in this run so far.
RECURSIVE SumCalls(_)
SumCalls(h) == IF h = <<>> THEN 0 ELSE Head(h).calls + SumCalls(Tail(h))

TotalCalls == SumCalls(handled) + (IF pc = "tts" THEN calls ELSE 0)

\* C17: every speech call returning and the thread being scheduled, a batch
\* run that was started comes to the step in which run() returns and emits
\* done or failed, and it has then made at most 3 speech calls for each
\* target row, whatever the calls came back with.
C17_RunTerminates ==
    /\ [](Diffed => TotalCalls <= 3 * Len(target_rows))
    /\ (pc = "start") ~> (pc = "returned" /\ terminal \in { "done", "failed" })

\* C17 witness: a run over two target rows has ended after 6 speech calls.
C17_Witness ==
    /\ pc = "returned" /\ terminal = "failed"
    /\ Len(target_rows) = 2
    /\ TotalCalls = 6

\* The pieces of a text between the separators ", ".
RECURSIVE SplitComma(_)
SplitComma(text) ==
    LET at == { i \in 1..(Len(text) - 1) : text[i] = "," /\ text[i + 1] = " " }
    IN  IF at = {} THEN << text >>
        ELSE LET k == CHOOSE i \in at : \A j \in at : i <= j
             IN  << SubSeq(text, 1, k - 1) >> \o SplitComma(SubSeq(text, k + 2, Len(text)))

\* C18: the message of a run that ends with n > 0 failed files gives the
\* count n; the pieces of its list of examples are the first min(n, 5) failed
\* files in the order they failed, and a last piece "..." exactly when n > 5.
C18_FailureMessage ==
    (pc = "returned" /\ signal = "failed" /\ failed_outputs # <<>>) =>
        LET n == Len(failed_outputs)
            shown == IF n < 5 THEN n ELSE 5
            pieces == SplitComma(details.preview)
        IN  /\ details.kind = "RuntimeError"
            /\ details.count = n
            /\ Len(pieces) >= shown
            /\ \A i \in 1..shown : pieces[i] = failed_outputs[i]
            /\ n <= 5 => Len(pieces) = n
            /\ n > 5 => (Len(pieces) = 6 /\ pieces[6] = <<".", ".", ".">>)
            /\ \A i \in DOMAIN pieces : pieces[i] = <<".", ".", ".">> => (n > 5 /\ i = 6)

\* C18 witness: a run with 6 failed files, not all the same, has emitted
\* failed.
C18_Witness ==
    /\ pc = "returned" /\ signal = "failed"
    /\ Len(failed_outputs) = 6
    /\ failed_outputs[5] # failed_outputs[6]
    /\ details.count = 6

\* The speech call of the preview gave no usable sample.
PreviewFailure ==
    \/ preview_out.result = "None"
    \/ preview_out.result # "Completed"
    \/ ~sample.exists
    \/ sample.size = 0

\* C19: a preview run makes one speech call and no more; it emits one signal,
\* in the step that makes the call: failed when the call gave no result, a
\* reason other than completed, or a sample file that is missing or empty,
\* and done otherwise; no step of the preview changes the snapshot, a
\* settings.json or a file of a voice output directory, whatever the batch
\* worker is doing.
C19_PreviewOnceAndApart ==
    /\ [](/\ preview_calls <= 1
          /\ preview_pc = "start" => preview_calls = 0
          /\ preview_pc \in { "done", "failed" } =>
                /\ preview_calls = 1
                /\ preview_pc = "failed" <=> PreviewFailure)
    /\ [][ /\ (preview_signal' # preview_signal /\ preview_signal' # "none") =>
                 /\ preview_pc = "start"
                 /\ preview_pc' = preview_signal'
                 /\ preview_calls' = 1
           /\ (preview_pc = "start" /\ preview_pc' # "start") =>
                 preview_signal' \in { "done", "failed" }
           /\ (preview_pc' # preview_pc \/ sample' # sample
                 \/ preview_calls' # preview_calls \/ request' = "play") =>
                 UNCHANGED << snapshot, settings, files >> ]_vars

\* C19 witness: while the batch worker retries a row, a preview whose call
\* completed with an empty sample file has emitted failed.
C19_Witness ==
    /\ pc = "tts" /\ calls >= 1
    /\ preview_pc = "failed"
    /\ preview_out.result = "Completed"
    /\ sample.exists /\ sample.size = 0

\* C20 (as claimed): a press of the start button with no worker running that
\* finds the CSV missing or invalid, or a speed or silence field that is not
\* a number, shows a message box and starts nothing: the worker, the
\* snapshot, the output files, every settings.json and config.json are as
\* before, and no speech call is made.
C20_InputErrorChangesNothing ==
    [][ (/\ request' = "start" /\ pc = "idle"
         /\ ~csv.exists \/ notice' = "Invalid Input") =>
        (/\ notice' \in { "CSV File", "Invalid Input" }
         /\ pc' = "idle" /\ worker' = worker /\ calls' = calls
         /\ UNCHANGED << snapshot, files, settings >>
         /\ config' = config) ]_vars

\* C20 but for config.json: the press shows a message box and starts
\* nothing, and the worker, the snapshot, the output files and every
\* settings.json are as before; a field that is not a number leaves
\* config.json as it was too.
C20_ButConfig ==
    [][ (/\ request' = "start" /\ pc = "idle"
         /\ ~csv.exists \/ notice' = "Invalid Input") =>
        (/\ notice' \in { "CSV File", "Invalid Input" }
         /\ pc' = "idle" /\ worker' = worker /\ calls' = calls
         /\ UNCHANGED << snapshot, files, settings >>
         /\ notice' = "Invalid Input" => config' = config) ]_vars

\* C20 but for config.json: the case happens, after a run that left a
\* snapshot and a settings.json behind.
C20_ButConfigWitness ==
    /\ request = "start" /\ notice = "CSV File"
    /\ pc = "idle" /\ ~csv.exists
    /\ snapshot.exists
    /\ \E d \in Dirs : settings[d].exists

\* C21 (as claimed): a current row with an unsafe path changes no file in a
\* batch run: the file its path names is, from the diff to the end of the
\* run, as it was when the run began, also when the row's text differs from
\* the snapshot's text for its path.
C21_UnsafeRowMutatesNothing ==
    Diffed =>
        \A i \in DOMAIN current_rows :
            LET row == current_rows[i]
                f == ReplaceColon(row.path)
            IN  IsUnsafe(row.path) => files[worker.dir][f] = files0[worker.dir][f]

\* C21 but for the deletion: no speech call is made for a row with an unsafe
\* path and its file is never created or overwritten; the file is as it was
\* when the run began unless the row is a changed row, and then it is gone.
C21_ButDeletion ==
    Diffed =>
        /\ \A i \in DOMAIN handled :
              IsUnsafe(target_rows[i].path) => handled[i] = Handled("unsafe", 0)
        /\ pc = "tts" => ~IsUnsafe(target_rows[idx].path)
        /\ \A i \in DOMAIN current_rows :
              LET row == current_rows[i]
                  f == ReplaceColon(row.path)
              IN  IsUnsafe(row.path) =>
                    \/ files[worker.dir][f] = files0[worker.dir][f]
                    \/ /\ ~files[worker.dir][f].exists
                       /\ \E k \in DOMAIN changed_rows : changed_rows[k].path = row.path

\* C21 but for the deletion: a run has ended with done after its diff deleted
\* the file, not made by the program, that a changed row with an unsafe path
\* names.
C21_ButDeletionWitness ==
    /\ RunEnded /\ terminal = "done"
    /\ Len(current_rows) = 1 /\ IsUnsafe(current_rows[1].path)
    /\ changed_rows = current_rows
    /\ files0[worker.dir][ReplaceColon(current_rows[1].path)].text = ForeignText
    /\ ~files[worker.dir][ReplaceColon(current_rows[1].path)].exists

\* Startup was ended by the fetch of the voice catalog: it gave no result or
\* a reason other than retrieved, or it raised.
FetchFailed == startup = "aborted" /\ fetch \in { "None", "Canceled", "Raised" }

\* C22 (as claimed): when the fetch of the voice catalog fails at startup,
\* startup ends with the startup error, the window is not shown, and
\* voices.json and credentials.json are as they were before startup.
C22_FetchFailureCommitsNothing ==
    FetchFailed =>
        /\ notice = "Startup Error"
        /\ voices_file = voices_file0
        /\ credentials = credentials0

\* C22 but for credentials.json: when the fetch fails, startup ends with the
\* startup error and voices.json is as before, that is, missing;
\* credentials.json is as before when it held a usable key and region, and
\* otherwise holds what the user typed into the two dialogs.
C22_ButCredentials ==
    FetchFailed =>
        /\ notice = "Startup Error"
        /\ voices_file = voices_file0 /\ ~voices_file.exists
        /\ voices = <<>>
        /\ credentials.exists
        /\ Strip(credentials.Key) = key /\ Strip(credentials.Region) = azure_region
        /\ (/\ credentials0.exists
            /\ ~NeedsPrompt(Strip(credentials0.Key), Strip(credentials0.Region))) =>
              credentials = credentials0

\* C22 but for credentials.json: the fetch has failed with the key and the
\* region that were stored before startup.
C22_ButCredentialsWitness ==
    /\ FetchFailed /\ fetch = "Canceled"
    /\ credentials0.exists /\ credentials = credentials0

\* Two or more current rows have the path p.
Duplicated(p) ==
    Cardinality({ i \in DOMAIN current_rows : current_rows[i].path = p }) >= 2

\* C23 (as claimed): when two or more current rows have the same path, the
\* last of them wins: after a run that ends with done the file at that path
\* holds the text of the last such row, and a run that repeats such a run
\* with the same CSV and the same parameters makes no speech call.
C23_LastDuplicateWins ==
    /\ (RunEnded /\ terminal = "done") =>
          \A i \in DOMAIN current_rows :
              LET p == current_rows[i].path
                  f == ReplaceColon(p)
              IN  (Duplicated(p) /\ ~IsUnsafe(p)) =>
                    /\ files[worker.dir][f].exists
                    /\ files[worker.dir][f].text = LastMapGet(current_rows, p)
    /\ (/\ RunEnded
        /\ prev.valid /\ prev.terminal = "done"
        /\ prev.rows = current_rows /\ prev.worker = worker /\ prev.envOps = envOps
        /\ \E i \in DOMAIN current_rows : Duplicated(current_rows[i].path)) =>
          \A i \in DOMAIN handled : handled[i].calls = 0

\* C23 as the code has it: of the rows of one path whose text is not the
\* snapshot's, the first one wins.  After a run that ends with done, a file
\* the run made a speech call for holds the text of the first target row of
\* its path.
C23_FirstTargetWins ==
    (RunEnded /\ terminal = "done") =>
        \A j \in DOMAIN handled :
            handled[j].calls >= 1 =>
                LET at == { k \in DOMAIN target_rows :
                              target_rows[k].path = target_rows[j].path }
                    first == CHOOSE k \in at : \A l \in at : k <= l
                IN  /\ j = first
                    /\ files[worker.dir][FileOfTarget(j)].text
                         = target_rows[first].text_to_play

\* C23 as the code has it: a run over two rows of one path with two texts
\* repeats a run that ended with done; it made a speech call again and has
\* ended with done, the file holding the first row's text.
C23_FirstTargetWinsWitness ==
    /\ RunEnded /\ terminal = "done"
    /\ prev.valid /\ prev.terminal = "done"
    /\ prev.rows = current_rows /\ prev.worker = worker
    /\ Len(current_rows) = 2 /\ Duplicated(current_rows[1].path)
    /\ current_rows[1].text_to_play # current_rows[2].text_to_play
    /\ handled = << Handled("ok", 1) >>
    /\ files[worker.dir][ReplaceColon(current_rows[1].path)].text
         = current_rows[1].text_to_play

\* The entity of a reserved character, and a character that is not reserved
\* as it is.
EntityOf(c) ==
    CASE c = "&" -> Amp
      [] c = "<" -> Lt
      [] c = ">" -> Gt
      [] c = "\"" -> Quot
      [] c = "'" -> Apos
      [] OTHER -> << c >>

\* The entities of the characters of a text, one after another.
RECURSIVE EachOnce(_)
EachOnce(text) ==
    IF text = <<>> THEN <<>> ELSE EntityOf(Head(text)) \o EachOnce(Tail(text))

\* One of the five entities begins at position i of text.
EntityAt(text, i) ==
    \E e \in { Amp, Lt, Gt, Quot, Apos } :
        /\ i + Len(e) - 1 <= Len(text)
        /\ SubSeq(text, i, i + Len(e) - 1) = e

\* C24: the text build_ssml puts into the markup is the input text with each
\* reserved character replaced by its entity, once each and nothing else
\* changed; it holds no raw < > " ' and every & in it begins one of the five
\* entities.
C24_TextEscapedOnce ==
    ssml.built =>
        /\ ssml.text = EachOnce(ssml_in.text)
        /\ \A i \in DOMAIN ssml.text :
              /\ ssml.text[i] \notin { "<", ">", "\"", "'" }
              /\ ssml.text[i] = "&" => EntityAt(ssml.text, i)

\* C24 witness: a text that reads as an entity followed by a raw reserved
\* character was built into the markup.
C24_Witness ==
    /\ ssml.built
    /\ ssml_in.text = << "&", "a", ";", "<" >>
    /\ ssml.text = << "&", "a", "m", "p", ";", "a", ";", "&", "l", "t", ";" >>

\* The number a sequence of decimal digits stands for.
RECURSIVE Number(_)
Number(digits) ==
    IF digits = <<>> THEN 0
    ELSE 10 * Number(SubSeq(digits, 1, Len(digits) - 1))
           + (CHOOSE d \in 0..9 : Digit(d) = digits[Len(digits)])

IsDigit(c) == \E d \in 0..9 : Digit(d) = c

\* C25: the rate build_ssml writes for the speed multiplier m is a sign, the
\* digits of a whole number, a point, two decimals and a percent sign; the
\* sign is - when (m - 1) * 100 is below zero and + otherwise; the number is
\* (m - 1) * 100 when two decimals can write it, and otherwise one of the two
\* nearest numbers of two decimals, off by half a hundredth at most.  1.0
\* gives +0.00%, 1.25 +25.00%, 0.75 -25.00%, 0.9 -10.00%.
C25_RateFormat ==
    ssml.built =>
        LET r == ssml.rate
            n == Len(r)
            t == ssml_in.speed - SpeedUnit
            a == IF t < 0 THEN 0 - t ELSE t
            whole == SubSeq(r, 2, n - 4)
            h == 100 * Number(whole) + Number(SubSeq(r, n - 2, n - 1))
        IN  /\ n >= 6
            /\ r[1] \in { "+", "-" }
            /\ r[1] = "-" <=> t < 0
            /\ r[n] = "%" /\ r[n - 3] = "."
            /\ \A i \in (2..(n - 4)) \cup { n - 2, n - 1 } : IsDigit(r[i])
            /\ Len(whole) > 1 => whole[1] # "0"
            /\ a % 10 = 0 => 10 * h = a
            /\ 10 * h - a <= 5 /\ a - 10 * h <= 5
            /\ ssml_in.speed = 100000 => r = << "+", "0", ".", "0", "0", "%" >>
            /\ ssml_in.speed = 125000 => r = << "+", "2", "5", ".", "0", "0", "%" >>
            /\ ssml_in.speed = 75000 => r = << "-", "2", "5", ".", "0", "0", "%" >>
            /\ ssml_in.speed = 90000 => r = << "-", "1", "0", ".", "0", "0", "%" >>

\* C25 witness: multiplier 0.99994, just below 1.0, was written as -0.01%.
C25_Witness ==
    /\ ssml.built
    /\ ssml_in.speed = 99994
    /\ ssml.rate = << "-", "0", ".", "0", "1", "%" >>

\* The files a speech call can find: none, or one left by an earlier call
\* for the same row.
FilesFound == { NoFile } \cup { AudioFile(<<"H">>, n) : n \in Sizes }

\* The last target row so far that was synthesised, 0 when there is none.
LastSynthesised ==
    LET at == { i \in DOMAIN handled : handled[i].calls > 0 }
    IN  IF at = {} THEN 0 ELSE CHOOSE i \in at : \A j \in at : j <= i

\* C26 (as claimed): a speech call is counted as a failure exactly when it
\* gave no result, or a reason other than completed, or the file is then
\* missing or smaller than 1024 bytes; while a row is retried every call so
\* far was counted; the first call that is not counted ends the row: no
\* further call is made for it, its file is kept as valid audio to the end
\* of the run, and the file is not in the failure list.
C26_FirstSuccessEndsRow ==
    /\ \A o \in TtsOutcomes, file \in FilesFound, count \in 0..(MaxRetries - 1) :
          LET written == IF o.writes THEN AudioFile(<<"H">>, o.size) ELSE file
          IN  /\ CountAttempt(o, written, count) \in { count, count + 1 }
              /\ CountAttempt(o, written, count) = count + 1 <=>
                    \/ o.result = "None"
                    \/ o.result # "Completed"
                    \/ ~written.exists
                    \/ written.size < 1024
    /\ Diffed =>
          /\ pc = "tts" => retry_count = calls
          /\ (pc # "tts" /\ LastSynthesised > 0
                /\ handled[LastSynthesised].how = "ok") =>
                /\ calls = handled[LastSynthesised].calls
                /\ retry_count = calls - 1
          /\ \A i \in DOMAIN handled :
                handled[i].how = "ok" =>
                    /\ handled[i].calls \in 1..MaxRetries
                    /\ files[worker.dir][FileOfTarget(i)].exists
                    /\ files[worker.dir][FileOfTarget(i)].size >= 1024
                    /\ FileOfTarget(i) \notin Range(failed_outputs)

\* C26 where no two rows of the CSV have the same path.
C26_UniquePaths == UniquePaths => C26_FirstSuccessEndsRow

\* C26 where no two rows of the CSV have the same path: the first row
\* exhausted its retries and the second one was synthesised with its second
\* call; the run has ended, the second file is there and the failure list
\* names the first only.
C26_UniquePathsWitness ==
    /\ UniquePaths
    /\ RunEnded /\ terminal = "failed"
    /\ handled = << Handled("exhausted", 3), Handled("ok", 2) >>
    /\ failed_outputs = << FileOfTarget(1) >>
    /\ files[worker.dir][FileOfTarget(2)].size >= 1024

\* The steps from one phase of a batch run to the next.
PhaseSteps ==
    { << "idle", "start" >>, << "start", "diff" >>, << "start", "returned" >>,
      << "diff", "rows" >>, << "diff", "returned" >>, << "rows", "tts" >>,
      << "tts", "rows" >>, << "rows", "returned" >>, << "tts", "returned" >>,
      << "returned", "idle" >> }

\* The step removes an output file.
Deletes == \E d \in Dirs, f \in AllFiles : files[d][f].exists /\ ~files'[d][f].exists

\* C27: a batch run goes through its phases in order: resolve and read the
\* CSV, diff, the target rows one by one, commit, done or failed.  No speech
\* call and no deletion of an output file by the run comes before the CSV
\* was read; the deletions of old files are all made by the diff, before the
\* first row; and a snapshot that existed when the run began is changed only
\* after every target row has been handled, in the step that ends the run.
C27_PhasesInOrder ==
    /\ [](/\ pc \in { "diff", "rows", "tts" } => readOk
          /\ (pc \in { "start", "diff" } \/ (pc = "returned" /\ ~readOk)) => NoCallYet
          /\ pc = "diff" => files = files0
          /\ (snapshot0.exists /\ pc \in { "diff", "rows", "tts" }) =>
                snapshot = snapshot0)
    /\ [][ /\ pc' # pc => << pc, pc' >> \in PhaseSteps
           /\ (calls' > calls \/ Len(handled') > Len(handled)) =>
                 (readOk /\ pc \in { "rows", "tts" })
           /\ (Deletes /\ pc # "idle") => (readOk /\ pc \in { "diff", "tts" })
           /\ (Deletes /\ pc = "tts") => failed_outputs' # failed_outputs
           /\ (snapshot' # snapshot /\ snapshot.exists) =>
                 /\ pc = "rows" /\ pc' = "returned"
                 /\ idx > Len(target_rows)
                 /\ Len(handled) = Len(target_rows)
                 /\ failed_outputs = <<>> ]_vars

\* C27 witness: a run that began with a snapshot and the old file of a
\* changed row has deleted the file in its diff, synthesised two rows,
\* replaced the snapshot and emitted done.
C27_Witness ==
    /\ RunEnded /\ terminal = "done"
    /\ snapshot0.exists /\ snapshot # snapshot0
    /\ Len(changed_rows) = 1 /\ Len(new_rows) = 1
    /\ files0[worker.dir][ReplaceColon(changed_rows[1].path)].exists
    /\ handled = << Handled("ok", 1), Handled("ok", 1) >>

\* Every output file there is was written by a speech call of the program.
OnlyProgramFiles ==
    \A d \in Dirs, f \in AllFiles : files[d][f].exists => files[d][f].text # ForeignText

\* C28 (as claimed, for rows of pairwise different paths): when a run ends
\* with done and every output file was made by the program, each file of the
\* run's voice output directory that belongs to a current row with a safe
\* path holds that row's text, whatever voice the runs before it were for.
C28_FilesMatchCurrentText ==
    (RunEnded /\ terminal = "done" /\ OnlyProgramFiles /\ UniquePaths) =>
        \A i \in DOMAIN current_rows :
            LET row == current_rows[i]
                f == ReplaceColon(row.path)
            IN  (~IsUnsafe(row.path) /\ files[worker.dir][f].exists) =>
                    files[worker.dir][f].text = row.text_to_play

\* C28 for the files of the run itself: when a run ends with done and its
\* rows have pairwise different paths, each file the run made a speech call
\* for holds its row's text, and each current row with a safe path has a
\* file.
C28_SynthesisedMatch ==
    (RunEnded /\ terminal = "done" /\ UniquePaths) =>
        /\ \A j \in DOMAIN handled :
              handled[j].how = "ok" =>
                  files[worker.dir][FileOfTarget(j)].text = target_rows[j].text_to_play
        /\ \A j \in DOMAIN target_rows :
              ~IsUnsafe(target_rows[j].path) => files[worker.dir][FileOfTarget(j)].exists

\* C28 for the files of the run itself: a run for the second voice has
\* synthesised the changed row and ended with done, the file of the first
\* voice still holding the old text.
C28_SynthesisedMatchWitness ==
    /\ RunEnded /\ terminal = "done" /\ UniquePaths /\ OnlyProgramFiles
    /\ worker.dir = "d2"
    /\ Len(changed_rows) = 1 /\ handled = << Handled("ok", 1) >>
    /\ files["d1"][FileOfTarget(1)].exists
    /\ files["d1"][FileOfTarget(1)].text # target_rows[1].text_to_play
    /\ files["d2"][FileOfTarget(1)].text = target_rows[1].text_to_play

\* The run follows, with nothing changed by hand in between, a run that read
\* the same rows, had the same arguments, and ended with failed.
RepeatsFailedRun ==
    /\ prev.valid /\ prev.rows = current_rows /\ prev.worker = worker
    /\ prev.terminal = "failed" /\ prev.envOps = envOps

\* C29 (as claimed, for rows of pairwise different paths): a run neither
\* deletes nor synthesises again a file that held the current text of its
\* row when the run began; and a run that repeats a failed run with the same
\* CSV makes speech calls only for files that were missing when it began.
C29_CurrentFilesKept ==
    (Diffed /\ UniquePaths) =>
        /\ \A i \in DOMAIN current_rows :
              LET row == current_rows[i]
                  f == ReplaceColon(row.path)
              IN  (/\ ~IsUnsafe(row.path)
                   /\ files0[worker.dir][f].exists
                   /\ files0[worker.dir][f].text = row.text_to_play) =>
                      /\ files[worker.dir][f] = files0[worker.dir][f]
                      /\ f \notin Called
        /\ RepeatsFailedRun => Called \subseteq Missing0

\* C29 for the rows the snapshot has with the same text: a run neither
\* deletes nor synthesises again the existing file of a current row whose
\* text is the snapshot's text for its path; and when no current row has
\* another text than the snapshot's, speech calls are made only for files
\* that were missing when the run began.
C29_UnchangedFilesKept ==
    (Diffed /\ UniquePaths) =>
        /\ \A i \in DOMAIN current_rows :
              LET row == current_rows[i]
                  f == ReplaceColon(row.path)
              IN  (/\ ~IsUnsafe(row.path)
                   /\ files0[worker.dir][f].exists
                   /\ IsUnchangedRow(row)) =>
                      /\ files[worker.dir][f] = files0[worker.dir][f]
                      /\ f \notin Called
        /\ changed_rows = <<>> => Called \subseteq Missing0

\* C29 for the rows the snapshot has with the same text: a run repeats a run
\* that failed on a new row; it has synthesised that row only, kept the file
\* of the other row, and ended with done.
C29_UnchangedFilesKeptWitness ==
    /\ RunEnded /\ terminal = "done" /\ UniquePaths
    /\ RepeatsFailedRun
    /\ Len(current_rows) = 2
    /\ Cardinality(Missing0) = 1 /\ Called = Missing0
    /\ \E i \in DOMAIN current_rows :
          /\ IsUnchangedRow(current_rows[i])
          /\ files0[worker.dir][ReplaceColon(current_rows[i].path)].exists

====
